---- MODULE Spec2Model ----
(***************************************************************************)
(* GTUD digital-rotation repository: the v6.2 engine                       *)
(* (V6-2-S/vendor/V6_2_artifact_pack/code/run_v6_2_experiment.py), the     *)
(* v6.2.S student runner (V6-2-S/run_experiment.py), the reference         *)
(* comparison checker (V6-2-S/tools/check_official_replication.py) and the *)
(* two integrity checkers (verify_manifest.py, V6-1/code/verify_pack.py).  *)
(*                                                                         *)
(* Conventions.                                                            *)
(*  - A float is an integer number of hundredths (0.05 is 5); NaN is the   *)
(*    value NaN, on which every comparison is false, as in IEEE 754.       *)
(*  - An optional value (Python None, a file that may be missing) is a set *)
(*    with at most one element: {} is None / no file, {v} is v.            *)
(*  - A text that the code searches or upper-cases is a sequence of        *)
(*    one-character strings.                                               *)
(***************************************************************************)
EXTENDS Integers, Sequences, FiniteSets, TLC

VARIABLES
  \* ---- student runner, V6-2-S/run_experiment.py ----
  pc,              \* position of main()
  exc,             \* the exception main() died of, "none" while alive
  fs_case,         \* TRUE on a case-sensitive file system
  tables_fit,      \* paper_ready/tables/fit_summary_by_condition.csv
  ref_file,        \* reference_metrics_v6_2.json
  verdict_txt,     \* paper_ready/verdict.txt
  verdict_details, \* paper_ready/verdict_details.json
  run_manifest,    \* paper_ready/run_manifest.json
  hashes_txt,      \* paper_ready/hashes.txt
  engine_stderr,   \* paper_ready/engine_stderr.txt
  paper_docs,      \* citation_block.txt, methods_ready.md, results_ready.md
  details,         \* the value compute_verdict returned
  within_call,     \* a direct call of within(): its arguments and outcome
  \* ---- v6.2 engine, run_v6_2_experiment.py main() ----
  engine_pc,       \* position of the engine's main()
  engine_rc,       \* its exit code, {} while it has not exited
  engine_stdout,   \* what it printed
  df_fit_summary,  \* the engine's in-memory fit summary
  vendor_files,    \* the artifacts it has written below out_root
  vendor_fit,      \* results/fit_summary_by_condition.csv as written
  \* ---- reference-comparison checker ----
  chk_argc,        \* len(sys.argv) of the last run, 0 before any run
  chk_in,          \* what the last run found on disk
  chk_out,         \* what the last run printed
  chk_ret,         \* its return value, {} if it has not returned
  chk_exc,         \* the exception it died of, "none" otherwise
  \* ---- generate_coherent_soft(rng, p) ----
  syn_pc,          \* "idle", "start", "loop", "returned", "raised"
  syn_p,           \* the Params it was called with
  syn_attempts,    \* passes of the while loop so far, counted up to MaxAttempts
  rng_draws,       \* uniform draws taken from rng in the counted passes
  syn_cand,        \* the candidates built so far, oldest first
  syn_ret,         \* the returned (x, diagnostics), {} before the return
  syn_exc,         \* the exception raised, "none" otherwise
  \* ---- integrity checkers ----
  ig_prog,         \* "verify_manifest" or "verify_pack"
  ig_manifest,     \* the rows of the manifest CSV
  ig_disk,         \* the files on disk: name -> content, {} if missing
  ig_pc,           \* position of the checker
  ig_i,            \* rows of the manifest consumed
  ig_bad,          \* verify_manifest's counter
  ig_out,          \* the lines printed
  ig_ret,          \* the exit code, {} while running
  \* ---- the engine's aggregation of one FitRecord field ----
  agg_pc,          \* "idle", "agg", "done"
  agg_rows,        \* df_fit: rows of (condition, value of the field)
  agg_out,         \* the summary rows, or the exception raised
  \* ---- to_bin(x) ----
  bin_pc,          \* "idle", "call", "again", "done"
  bin_x,           \* the argument
  bin_out,         \* the results of to_bin(x) and of to_bin(to_bin(x))
  \* ---- the engine's replicate loop and fit loop ----
  run_pc,          \* position of main() between lines 153 and 344
  run_rep,         \* rep of the replicate loop, then of the fit loop
  run_level,       \* index of the sigma, probability or condition at hand
  run_ki,          \* index into k_grid at hand
  rng_seedings,    \* the generators main() has created so far
  run_draws,       \* the calls made on rng, in order
  run_rows,        \* rows, the list behind df_raw
  fit_rows,        \* fit_rows, the list behind df_fit
  \* ---- the identity curves of one replicate ----
  cur_pc,          \* "idle", "curve", "fit", "done"
  cur_cond,        \* the identity condition
  cur_base,        \* the sequence it rotates
  cur_points,      \* its CurvePoints so far
  cur_E0           \* E0 of its FitRecord, {} before the fit

studentVars == <<pc, exc, fs_case, tables_fit, ref_file, verdict_txt,
                 verdict_details, run_manifest, hashes_txt, engine_stderr,
                 paper_docs, details, within_call>>
engineVars == <<engine_pc, engine_rc, engine_stdout, df_fit_summary,
                vendor_files, vendor_fit>>
checkerVars == <<chk_argc, chk_in, chk_out, chk_ret, chk_exc>>

synthVars == <<syn_pc, syn_p, syn_attempts, rng_draws, syn_cand, syn_ret, syn_exc>>
integVars == <<ig_prog, ig_manifest, ig_disk, ig_pc, ig_i, ig_bad, ig_out, ig_ret>>
aggVars == <<agg_pc, agg_rows, agg_out>>
binVars == <<bin_pc, bin_x, bin_out>>
runVars == <<run_pc, run_rep, run_level, run_ki, rng_seedings, run_draws,
             run_rows, fit_rows>>
curVars == <<cur_pc, cur_cond, cur_base, cur_points, cur_E0>>
moreVars == <<aggVars, binVars, runVars, curVars>>
toolVars == <<synthVars, integVars, moreVars>>

vars == <<studentVars, engineVars, checkerVars, toolVars>>

----------------------------------------------------------------------------
(* Floats and texts *)

NaN == -9999

IsNaN(v) == v = NaN

Abs(v) == IF v < 0 THEN -v ELSE v

\* a <= b on floats
FloatLE(a, b) == ~IsNaN(a) /\ ~IsNaN(b) /\ a <= b

\* a - b on floats
FloatSub(a, b) == IF IsNaN(a) \/ IsNaN(b) THEN NaN ELSE a - b

FloatAbs(a) == IF IsNaN(a) THEN NaN ELSE Abs(a)

The(opt) == CHOOSE v \in opt : TRUE

UpperChar(c) ==
  CASE c = "a" -> "A" [] c = "d" -> "D" [] c = "e" -> "E" [] c = "f" -> "F"
    [] c = "i" -> "I" [] c = "l" -> "L" [] c = "p" -> "P" [] c = "s" -> "S"
    [] OTHER -> c

\* str.upper()
Upper(s) == [i \in DOMAIN s |-> UpperChar(s[i])]

\* pat in s
Contains(s, pat) ==
  \E i \in 1..(Len(s) - Len(pat) + 1) : SubSeq(s, i, i + Len(pat) - 1) = pat

T_PASS == <<"P", "A", "S", "S">>
T_FAIL == <<"F", "A", "I", "L">>

----------------------------------------------------------------------------
(* V6-2-S/run_experiment.py: tolerances *)

TOL_R2_mean_abs == 5
TOL_R2_std_abs == 3
TOL_beta_origin_mean_rel == 12
TOL_R2_origin_mean_abs == 20
NEG_R2_mean_max == 20
NEG_R2_origin_mean_max == 20

\* slopes tried as reference and as measured value
RefBetas == {0, 100, -50}
BetaValues == {0, 12, 13, 88, 113, -44, -43, NaN}

CLEAN == "coherent_bin_clean"
RAND == "random_bin"
PAL == "palindrome_bin_no_coherence"

RequiredConditions == {CLEAN, RAND, PAL}
RequiredColumns == {"R2_mean", "R2_std", "beta_origin_mean", "R2_origin_mean"}

CheckNames ==
  << "clean.R2_mean", "clean.R2_std", "clean.beta_origin_mean",
     "clean.R2_origin_mean", "random.R2_mean_fail",
     "random.R2_origin_mean_fail", "palindrome.R2_mean_fail",
     "palindrome.R2_origin_mean_fail" >>

----------------------------------------------------------------------------
(* within(val, ref, abs_tol=None, rel_tol=None) *)

withinAbsOnly(val, ref, abs_tol, rel_tol) ==
  IF abs_tol # {}
    THEN [exc |-> "none",
          ok |-> FloatLE(FloatAbs(FloatSub(val, ref)), The(abs_tol))]
  ELSE IF rel_tol # {}
    THEN [exc |-> "none",
          ok |-> FloatLE(FloatAbs(FloatSub(val, ref)), The(rel_tol))]
  ELSE [exc |-> "ValueError", ok |-> FALSE]

within(val, ref, abs_tol, rel_tol) ==
  IF abs_tol # {}
    THEN [exc |-> "none",
          ok |-> FloatLE(FloatAbs(FloatSub(val, ref)), The(abs_tol))]
  ELSE IF rel_tol # {}
    THEN IF ref = 0
           THEN [exc |-> "none", ok |-> FloatLE(FloatAbs(val), The(rel_tol))]
           ELSE [exc |-> "none",
                 ok |-> /\ ~IsNaN(val) /\ ~IsNaN(ref)
                        /\ 100 * Abs(val - ref) <= The(rel_tol) * Abs(ref)]
  ELSE [exc |-> "ValueError", ok |-> FALSE]

----------------------------------------------------------------------------
(* compute_verdict(root) *)

\* df[df["condition"] == cond]
RowsOf(df, cond) == SelectSeq(df.rows, LAMBDA r : r["condition"] = cond)

rowFirstMatch(df, cond) ==
  IF "condition" \notin df.cols THEN [exc |-> "KeyError", row |-> {}]
  ELSE IF Len(RowsOf(df, cond)) = 0 THEN [exc |-> "ValueError", row |-> {}]
  ELSE [exc |-> "none", row |-> {RowsOf(df, cond)[1]}]

\* the local function row(cond)
row(df, cond) ==
  IF "condition" \notin df.cols THEN [exc |-> "KeyError", row |-> {}]
  ELSE IF Len(RowsOf(df, cond)) # 1 THEN [exc |-> "ValueError", row |-> {}]
  ELSE [exc |-> "none", row |-> {RowsOf(df, cond)[1]}]

\* checks, in the order they are appended
checkValues(clean, rand, pal, ref_clean) ==
  << within(clean["R2_mean"], ref_clean["R2_mean"], {TOL_R2_mean_abs}, {}).ok,
     within(clean["R2_std"], ref_clean["R2_std"], {TOL_R2_std_abs}, {}).ok,
     within(clean["beta_origin_mean"], ref_clean["beta_origin_mean"],
            {}, {TOL_beta_origin_mean_rel}).ok,
     within(clean["R2_origin_mean"], ref_clean["R2_origin_mean"],
            {TOL_R2_origin_mean_abs}, {}).ok,
     FloatLE(rand["R2_mean"], NEG_R2_mean_max),
     FloatLE(rand["R2_origin_mean"], NEG_R2_origin_mean_max),
     FloatLE(pal["R2_mean"], NEG_R2_mean_max),
     FloatLE(pal["R2_origin_mean"], NEG_R2_origin_mean_max) >>

passedAny(oks) == \E i \in DOMAIN oks : oks[i]

\* passed = all(ok for _, ok in checks)
passed(oks) == \A i \in DOMAIN oks : oks[i]

makeDetailsLowerCase(clean, rand, pal, ref_clean) ==
  LET oks == checkValues(clean, rand, pal, ref_clean) IN
  [ verdict |-> IF passed(oks) THEN <<"p", "a", "s", "s">>
                ELSE <<"f", "a", "i", "l">>,
    checks |-> [i \in DOMAIN oks |-> [name |-> CheckNames[i], ok |-> oks[i]]],
    measured |-> [coherent_bin_clean |-> clean, random_bin |-> rand,
                  palindrome_bin_no_coherence |-> pal],
    reference |-> [coherent_bin_clean |-> ref_clean] ]

\* the details dict
makeDetails(clean, rand, pal, ref_clean) ==
  LET oks == checkValues(clean, rand, pal, ref_clean) IN
  [ verdict |-> IF passed(oks) THEN T_PASS ELSE T_FAIL,
    checks |-> [i \in DOMAIN oks |-> [name |-> CheckNames[i], ok |-> oks[i]]],
    measured |-> [coherent_bin_clean |-> clean, random_bin |-> rand,
                  palindrome_bin_no_coherence |-> pal],
    reference |-> [coherent_bin_clean |-> ref_clean] ]

\* The outcome of compute_verdict on the two files it loads: the exception it
\* raises, or the details it goes on to write and return.
compute_verdict(fit, ref) ==
  IF fit = {} \/ ref = {} THEN [exc |-> "FileNotFoundError", details |-> {}]
  ELSE
    LET df == The(fit)
        rj == The(ref)
        cl == row(df, CLEAN)
        ra == row(df, RAND)
        pa == row(df, PAL)
    IN
    IF cl.exc # "none" THEN [exc |-> cl.exc, details |-> {}]
    ELSE IF ra.exc # "none" THEN [exc |-> ra.exc, details |-> {}]
    ELSE IF pa.exc # "none" THEN [exc |-> pa.exc, details |-> {}]
    ELSE IF CLEAN \notin DOMAIN rj THEN [exc |-> "KeyError", details |-> {}]
    ELSE IF ~(RequiredColumns \subseteq df.cols)
              \/ ~(RequiredColumns \subseteq DOMAIN rj[CLEAN])
      THEN [exc |-> "KeyError", details |-> {}]
    ELSE [exc |-> "none",
          details |-> {makeDetails(The(cl.row), The(ra.row), The(pa.row),
                                   rj[CLEAN])}]

----------------------------------------------------------------------------
(* Files of paper_ready/ *)

NoFile == [kind |-> "absent", obj |-> <<>>]

\* json.dumps(d) written to a file, for a dict d with string keys
json_dumps(d) == [kind |-> "object", obj |-> d]

\* json.loads(read_text(p))
json_loads(file) ==
  IF file.kind \in {"absent", "unparsable"}
    THEN [exc |-> "Exception", value |-> <<>>, is_dict |-> FALSE]
    ELSE [exc |-> "none", value |-> file.obj, is_dict |-> file.kind = "object"]

\* the files below paper_ready/ (out.rglob("*"), files only)
PaperReadyFiles ==
  (IF tables_fit # {} THEN {"tables/fit_summary_by_condition.csv"} ELSE {})
  \cup (IF verdict_txt # {} THEN {"verdict.txt"} ELSE {})
  \cup (IF verdict_details.kind # "absent" THEN {"verdict_details.json"} ELSE {})
  \cup (IF run_manifest # {} THEN {"run_manifest.json"} ELSE {})
  \cup (IF hashes_txt # {} THEN {"hashes.txt"} ELSE {})
  \cup (IF engine_stderr # {} THEN {"engine_stdout.txt", "engine_stderr.txt"} ELSE {})
  \cup paper_docs

----------------------------------------------------------------------------
(* main() of the student runner, from compute_verdict on *)

ComputeVerdict ==
  /\ pc = "compute_verdict"
  /\ LET r == compute_verdict(tables_fit, ref_file) IN
     IF r.exc = "none"
       THEN /\ verdict_txt' = {Append(The(r.details).verdict, "\n")}
            /\ verdict_details' = json_dumps(The(r.details))
            /\ details' = r.details
            /\ pc' = "write_methods_results"
            /\ exc' = exc
       ELSE /\ pc' = "raised"
            /\ exc' = r.exc
            /\ UNCHANGED <<verdict_txt, verdict_details, details>>
  /\ UNCHANGED <<fs_case, tables_fit, ref_file, run_manifest, hashes_txt,
                 engine_stderr, paper_docs, within_call>>
  /\ UNCHANGED <<engineVars, checkerVars, toolVars>>

WriteMethodsResults ==
  /\ pc = "write_methods_results"
  /\ run_manifest' = {[verdict |-> The(details).verdict]}
  /\ paper_docs' = paper_docs \cup
                     {"citation_block.txt", "methods_ready.md", "results_ready.md"}
  /\ pc' = "write_hashes"
  /\ UNCHANGED <<exc, fs_case, tables_fit, ref_file, verdict_txt, verdict_details,
                 hashes_txt, engine_stderr, details, within_call>>
  /\ UNCHANGED <<engineVars, checkerVars, toolVars>>

WriteHashes ==
  /\ pc = "write_hashes"
  /\ hashes_txt' = {PaperReadyFiles}
  /\ pc' = "done"
  /\ UNCHANGED <<exc, fs_case, tables_fit, ref_file, verdict_txt, verdict_details,
                 run_manifest, engine_stderr, paper_docs, details, within_call>>
  /\ UNCHANGED <<engineVars, checkerVars, toolVars>>

\* a caller applies within() to arguments of its own; within() is pure, so
\* one recorded call per run covers them all
CallWithin ==
  \E val \in BetaValues, ref \in RefBetas,
     abs_tol \in {{}, {TOL_R2_mean_abs}}, rel_tol \in {{}, {TOL_beta_origin_mean_rel}} :
    /\ within_call = {}
    /\ within_call' = {[val |-> val, ref |-> ref, abs_tol |-> abs_tol,
                        rel_tol |-> rel_tol,
                        res |-> within(val, ref, abs_tol, rel_tol)]}
    /\ UNCHANGED <<pc, exc, fs_case, tables_fit, ref_file, verdict_txt,
                   verdict_details, run_manifest, hashes_txt, engine_stderr,
                   paper_docs, details>>
    /\ UNCHANGED <<engineVars, checkerVars, toolVars>>

----------------------------------------------------------------------------
(* V6-2-S/tools/check_official_replication.py *)

REQUIRED ==
  << "verdict_details.json", "run_manifest.json", "hashes.txt",
     "tables/fit_summary_by_condition.csv" >>

EXPECTED_CONDITIONS == <<CLEAN, RAND, PAL>>

\* verdict.get(key); None is the empty text, which is as falsy
DictGet(obj, key) == IF key \in DOMAIN obj THEN obj[key] ELSE <<>>

\* a or b
PyOr(a, b) == IF a # <<>> THEN a ELSE b

statusOnlyStatusKey(verdict) == DictGet(verdict, "status")

\* verdict.get("status") or verdict.get("verdict") or ... (lines 52-57)
extract_status(verdict) ==
  PyOr(PyOr(PyOr(DictGet(verdict, "status"), DictGet(verdict, "verdict")),
            DictGet(verdict, "overall")),
       DictGet(verdict, "result"))

\* The names a fit summary's text spells out: its header and its condition cells.
CsvNames(fit) ==
  IF fit = {} THEN {}
  ELSE The(fit).cols \cup
       (IF "condition" \in The(fit).cols
          THEN {The(fit).rows[i]["condition"] : i \in DOMAIN The(fit).rows}
          ELSE {})

\* <<name, part>>: part is a proper substring of name
ProperSubstrings ==
  { <<"random_bin_v2", "random_bin">>,
    <<"coherent_bin_bitflip_p0.01", "coherent_bin">>,
    <<"coherent_bin_bitflip_p0.02", "coherent_bin">>,
    <<"coherent_bin_bitflip_p0.05", "coherent_bin">>,
    <<"coherent_bin_bitflip_p0.10", "coherent_bin">>,
    <<"coherent_bin_clean", "coherent_bin">> }

\* cond in csv_text
InCsvText(fit, cond) ==
  \E nm \in CsvNames(fit) : nm = cond \/ <<nm, cond>> \in ProperSubstrings

Line(tag, arg) == [tag |-> tag, arg |-> arg]

Printed(lines, ret) == [out |-> lines, ret |-> {ret}, exc |-> "none"]

\* main() on an argument vector of length argc whose argv[1], when there is
\* one, names paper_ready (dir_ok) or something that is no directory
check_official_replication(argc, dir_ok) ==
  IF argc # 2 THEN Printed(<<Line("Usage", "")>>, 2)
  ELSE IF ~dir_ok
    THEN Printed(<<Line("NOT_COMPARABLE", "paper_ready directory not found")>>, 1)
  ELSE
    LET missing == SelectSeq(REQUIRED, LAMBDA rel : rel \notin PaperReadyFiles)
        verdict == json_loads(verdict_details)
        status == extract_status(verdict.value)
        absent == SelectSeq(EXPECTED_CONDITIONS,
                            LAMBDA cond : ~InCsvText(tables_fit, cond))
        s == Upper(status)
    IN
    IF missing # <<>>
      THEN Printed(<<Line("NOT_COMPARABLE", "missing required files")>>
                     \o [i \in DOMAIN missing |-> Line(" - ", missing[i])], 1)
    ELSE IF verdict.exc # "none"
      THEN Printed(<<Line("NOT_COMPARABLE", "cannot parse verdict_details.json")>>, 1)
    ELSE IF ~verdict.is_dict
      THEN [out |-> <<>>, ret |-> {}, exc |-> "AttributeError"]
    ELSE IF status = <<>>
      THEN Printed(<<Line("NOT_COMPARABLE", "no status/verdict field")>>, 1)
    ELSE IF absent # <<>>
      THEN Printed(<<Line("NOT_COMPARABLE", absent[1])>>, 1)
    ELSE IF Contains(s, T_PASS)
      THEN Printed(<<Line("OFFICIAL_REPLICATION_PASS", "")>>, 0)
    ELSE IF Contains(s, T_FAIL)
      THEN Printed(<<Line("OFFICIAL_REPLICATION_FAIL", "")>>, 0)
    ELSE Printed(<<Line("OFFICIAL_REPLICATION (status=...)", "")>>, 0)

MaxArgc == 3

CheckOfficialReplication ==
  \E argc \in 1..MaxArgc, dir_ok \in BOOLEAN :
    LET r == check_official_replication(argc, dir_ok) IN
    /\ chk_argc' = argc
    /\ chk_in' = [dir_ok |-> dir_ok, files |-> PaperReadyFiles,
                  verdict_details |-> verdict_details, fit |-> tables_fit]
    /\ chk_out' = r.out
    /\ chk_ret' = r.ret
    /\ chk_exc' = r.exc
    /\ UNCHANGED <<studentVars, engineVars, toolVars>>

----------------------------------------------------------------------------
(* Inputs: fit summaries, reference baselines, earlier contents of paper_ready *)

SummaryColumns == {"condition"} \cup RequiredColumns

MkRow(cond, r2, r2s, beta, r2o) ==
  [condition |-> cond, R2_mean |-> r2, R2_std |-> r2s,
   beta_origin_mean |-> beta, R2_origin_mean |-> r2o]

MkTable(rows) == [cols |-> SummaryColumns, rows |-> rows]

Ref(beta) ==
  [coherent_bin_clean |->
     [R2_mean |-> 90, R2_std |-> 5, beta_origin_mean |-> beta,
      R2_origin_mean |-> 80]]

\* one row per required condition, values on both sides of every threshold
WellFormedTables ==
  { MkTable(<< MkRow(CLEAN, a, b, c, d), MkRow(PAL, g, 0, 0, h),
               MkRow(RAND, e, 0, 0, f) >>) :
      a \in {84, 95}, b \in {8, 9}, c \in {88, 113}, d \in {60, 59},
      e \in {20, 21}, f \in {-5, 21}, g \in {20, 21}, h \in {20, NaN} }

\* the clean row on both sides of its four tolerances, the controls passing
CleanTables ==
  { MkTable(<< MkRow(CLEAN, a, b, c, d), MkRow(PAL, 0, 0, 0, 0),
               MkRow(RAND, 0, 0, 0, 0) >>) :
      a \in {84, 85, 96}, b \in {1, 2}, c \in BetaValues, d \in {60, 101} }

MaxDup == 2

Copies(r, k) == [i \in 1..k |-> r]

\* zero, one or several rows per required condition; no condition column;
\* a required column missing; a near-miss condition name
MalformedTables ==
  { MkTable(Copies(MkRow(CLEAN, 90, 5, 100, 80), i)
              \o Copies(MkRow(RAND, 0, 0, 0, 0), j)
              \o Copies(MkRow(PAL, 0, 0, 0, 0), k)) :
      i \in 0..MaxDup, j \in 0..MaxDup, k \in 0..MaxDup }
  \cup
  { [cols |-> RequiredColumns,
     rows |-> <<[R2_mean |-> 90, R2_std |-> 5, beta_origin_mean |-> 100,
                 R2_origin_mean |-> 80]>>],
    [cols |-> SummaryColumns \ {"R2_std"},
     rows |-> << [condition |-> CLEAN, R2_mean |-> 90, beta_origin_mean |-> 100,
                  R2_origin_mean |-> 80],
                 [condition |-> RAND, R2_mean |-> 0, beta_origin_mean |-> 0,
                  R2_origin_mean |-> 0],
                 [condition |-> PAL, R2_mean |-> 0, beta_origin_mean |-> 0,
                  R2_origin_mean |-> 0] >>],
    MkTable(<< MkRow(CLEAN, 90, 5, 100, 80), MkRow("random_bin_v2", 0, 0, 0, 0),
               MkRow(PAL, 0, 0, 0, 0) >>) }

RefFiles ==
  { {Ref(b)} : b \in RefBetas }

BadRefFiles ==
  { {}, {[coherent_bin |-> Ref(100)[CLEAN]]},
    {[coherent_bin_clean |-> [R2_mean |-> 90, beta_origin_mean |-> 100,
                              R2_origin_mean |-> 80]]} }

\* the synthesizer and the integrity checkers not running
SynthIdle ==
  /\ syn_pc = "idle"
  /\ syn_p = [n |-> 8, band |-> 8, lambda_threshold |-> 75, mean_abs_max |-> 10,
              sign_changes_min |-> 2, sign_changes_max |-> 200]
  /\ syn_attempts = 0
  /\ rng_draws = 0
  /\ syn_cand = {}
  /\ syn_ret = {}
  /\ syn_exc = ""

IntegIdle ==
  /\ ig_prog = "none"
  /\ ig_manifest = <<>>
  /\ ig_disk = {}
  /\ ig_pc = "idle"
  /\ ig_i = 0
  /\ ig_bad = 0
  /\ ig_out = <<>>
  /\ ig_ret = {}

AggIdle == agg_pc = "idle" /\ agg_rows = <<>> /\ agg_out = {}

BinIdle == bin_pc = "idle" /\ bin_x = <<>> /\ bin_out = <<>>

RunIdle ==
  /\ run_pc = "idle"
  /\ run_rep = 0
  /\ run_level = 0
  /\ run_ki = 0
  /\ rng_seedings = 0
  /\ run_draws = <<>>
  /\ run_rows = <<>>
  /\ fit_rows = <<>>

CurIdle ==
  /\ cur_pc = "idle"
  /\ cur_cond = ""
  /\ cur_base = <<>>
  /\ cur_points = <<>>
  /\ cur_E0 = {}

MoreIdle == AggIdle /\ BinIdle /\ RunIdle /\ CurIdle

ToolsIdle == SynthIdle /\ IntegIdle /\ MoreIdle

\* what an earlier run, or a user, left in paper_ready/
Fresh ==
  [verdict_txt |-> {}, verdict_details |-> NoFile, run_manifest |-> {},
   hashes_txt |-> {}, paper_docs |-> {}]

Left(vd) ==
  [verdict_txt |-> {Append(T_PASS, "\n")}, verdict_details |-> vd,
   run_manifest |-> {[verdict |-> T_PASS]},
   hashes_txt |-> {{"verdict.txt"}}, paper_docs |-> {}]

OddVerdictDetails ==
  { [kind |-> "unparsable", obj |-> <<>>],
    [kind |-> "nonobject", obj |-> <<>>],
    [kind |-> "object", obj |-> <<>>],
    [kind |-> "object", obj |-> [checks |-> <<>>]],
    [kind |-> "object", obj |-> [status |-> <<"p", "a", "s", "s">>]],
    [kind |-> "object", obj |-> [status |-> <<>>, verdict |-> T_FAIL]],
    [kind |-> "object", obj |-> [overall |-> <<"F", "a", "i", "l", "e", "d">>]],
    [kind |-> "object", obj |-> [result |-> <<"U", "N", "K", "N", "O", "W", "N">>]],
    [kind |-> "object", obj |-> [verdict |-> <<"N", "/", "A">>, result |-> T_PASS]] }

StaleRun == Left(json_dumps([verdict |-> T_PASS]))

EngineIdle ==
  /\ engine_pc = "idle"
  /\ engine_rc = {}
  /\ engine_stdout = <<>>
  /\ df_fit_summary = {}
  /\ vendor_files = {}
  /\ vendor_fit = {}

CheckerIdle ==
  /\ chk_argc = 0
  /\ chk_in = [dir_ok |-> FALSE, files |-> {}, verdict_details |-> NoFile,
               fit |-> {}]
  /\ chk_out = <<>>
  /\ chk_ret = {}
  /\ chk_exc = "none"

\* compute_verdict(root) is about to run on a paper_ready/ holding fit and prior
VerdictInputs(fit, ref, prior) ==
  /\ pc = "compute_verdict"
  /\ exc = "none"
  /\ fs_case \in {TRUE}
  /\ tables_fit = fit
  /\ ref_file = ref
  /\ verdict_txt = prior.verdict_txt
  /\ verdict_details = prior.verdict_details
  /\ run_manifest = prior.run_manifest
  /\ hashes_txt = prior.hashes_txt
  /\ paper_docs = prior.paper_docs
  /\ engine_stderr = {}
  /\ details = {}
  /\ within_call = {}

InitVerdict ==
  /\ ToolsIdle
  /\ \/ \E t \in WellFormedTables, p \in {Fresh, StaleRun} :
          VerdictInputs({t}, {Ref(100)}, p)
     \/ \E t \in MalformedTables, r \in RefFiles \cup BadRefFiles,
           p \in {Fresh, StaleRun} :
          VerdictInputs({t}, r, p)
     \/ \E vd \in OddVerdictDetails, r \in RefFiles \cup BadRefFiles :
          \/ VerdictInputs({MkTable(<< MkRow(CLEAN, 90, 5, 100, 80),
                                       MkRow(PAL, 0, 0, 0, 0),
                                       MkRow(RAND, 0, 0, 0, 0) >>)}, r, Left(vd))
          \/ VerdictInputs({}, r, Left(vd))
  /\ EngineIdle
  /\ CheckerIdle

NextVerdict ==
  \/ ComputeVerdict
  \/ WriteMethodsResults
  \/ WriteHashes
  \/ CheckOfficialReplication

SpecVerdict == InitVerdict /\ [][NextVerdict]_vars

----------------------------------------------------------------------------
(* run_v6_2_experiment.py: main(), as the student runner's subprocess *)

\* the names the module binds at import time (lines 21-31)
EngineImports ==
  {"argparse", "math", "os", "platform", "dataclass", "datetime", "timezone",
   "np", "pd"}

\* the global names the run-log block reads (lines 390-403)
RunlogNames == {"os", "datetime", "timezone", "sys", "platform", "np", "pd", "json"}

\* condition names of df_raw (lines 195, 207, 233, 245, 273, 292)
EngineConditions ==
  { "coherent_soft", "coherent_soft_noise_sigma0.05",
    "coherent_soft_noise_sigma0.10", "coherent_soft_noise_sigma0.30",
    "coherent_bin", "coherent_bin_bitflip_p0.01", "coherent_bin_bitflip_p0.02",
    "coherent_bin_bitflip_p0.05", "coherent_bin_bitflip_p0.10",
    "random_bin", "palindrome_bin_no_coherence" }

\* the columns of df_fit_summary (lines 357-374)
EngineSummaryColumns ==
  { "condition", "beta_origin_mean", "beta_origin_std", "r2_origin_mean",
    "r2_origin_std", "slope_mean", "slope_std", "intercept_mean",
    "intercept_std", "r2_mean", "r2_std", "E0_mean", "E0_std",
    "beta_origin_delta_mean", "beta_origin_delta_std", "r2_origin_delta_mean",
    "r2_origin_delta_std" }

\* groupby(...).agg(...) sorts its keys: the conditions in lexicographic order
SortedEngineConditions ==
  << "coherent_bin", "coherent_bin_bitflip_p0.01", "coherent_bin_bitflip_p0.02",
     "coherent_bin_bitflip_p0.05", "coherent_bin_bitflip_p0.10",
     "coherent_soft", "coherent_soft_noise_sigma0.05",
     "coherent_soft_noise_sigma0.10", "coherent_soft_noise_sigma0.30",
     "palindrome_bin_no_coherence", "random_bin" >>

\* one row of df_fit_summary: the statistics the verdict would need vary with
\* the run (v), the others are not looked at here
EngineRow(cond, v) ==
  [c \in EngineSummaryColumns |->
     IF c = "condition" THEN cond
     ELSE IF c = "r2_mean" THEN v.r2
     ELSE IF c = "r2_origin_mean" THEN v.r2o
     ELSE IF c = "beta_origin_mean" THEN v.beta
     ELSE 0]

\* the statistics a run may come to, per family of conditions
EngineStats ==
  [coherent : {[r2 |-> 90, r2o |-> 80, beta |-> b] : b \in {100, 113}}
                \cup {[r2 |-> NaN, r2o |-> NaN, beta |-> 100]},
   random : {[r2 |-> r, r2o |-> r, beta |-> 0] : r \in {0, 21}},
   palindrome : {[r2 |-> r, r2o |-> r, beta |-> 0] : r \in {0, 21}}]

\* df_fit_summary (lines 357-374)
EngineSummary(st) ==
  [cols |-> EngineSummaryColumns,
   rows |-> [i \in DOMAIN SortedEngineConditions |->
               LET c == SortedEngineConditions[i] IN
               EngineRow(c, IF c = "random_bin" THEN st.random
                            ELSE IF c = "palindrome_bin_no_coherence"
                              THEN st.palindrome
                            ELSE st.coherent)]]

\* the CSV files in the order lines 383-387 write them
EngineCsvFiles ==
  << "data/raw_v6_2_all_conditions.csv", "data/fit_v6_2_per_replicate.csv",
     "results/summary_by_condition_and_k.csv",
     "results/fit_summary_by_condition.csv",
     "data/coherence_metrics_per_replicate.csv" >>

\* the artifacts the module docstring lists (lines 6-11)
EngineListedArtifacts ==
  { "data/raw_v6_2_all_conditions.csv", "data/fit_v6_2_per_replicate.csv",
    "results/summary_by_condition_and_k.csv",
    "results/fit_summary_by_condition.csv", "logs/runlog_v6_2.txt" }

\* run_v6_2_engine, lines 60-65: the path it builds is vendor/v6_2_artifact_pack,
\* the repository's directory is vendor/V6_2_artifact_pack
RunEngineStart ==
  /\ pc = "run_v6_2_engine"
  /\ IF fs_case
       THEN /\ pc' = "raised"
            /\ exc' = "FileNotFoundError"
            /\ UNCHANGED engine_pc
       ELSE /\ pc' = "engine_running"
            /\ exc' = exc
            /\ engine_pc' = "start"
  /\ UNCHANGED <<fs_case, tables_fit, ref_file, verdict_txt, verdict_details,
                 run_manifest, hashes_txt, engine_stderr, paper_docs, details,
                 within_call>>
  /\ UNCHANGED <<engine_rc, engine_stdout, df_fit_summary, vendor_files,
                 vendor_fit, checkerVars, toolVars>>

\* lines 149-374: arguments, Params, the generator, the directories, the
\* replicate loop, the fits and the two summaries
EngineCompute ==
  /\ engine_pc = "start"
  /\ \E st \in EngineStats : df_fit_summary' = {EngineSummary(st)}
  /\ engine_pc' = "write_csv"
  /\ UNCHANGED <<engine_rc, engine_stdout, vendor_files, vendor_fit>>
  /\ UNCHANGED <<studentVars, checkerVars, toolVars>>

\* lines 383-387, one to_csv per step
EngineWriteCsv ==
  /\ engine_pc = "write_csv"
  /\ LET k == Cardinality(vendor_files) + 1
         f == EngineCsvFiles[k]
     IN
     /\ vendor_files' = vendor_files \cup {f}
     /\ vendor_fit' = IF f = "results/fit_summary_by_condition.csv"
                        THEN df_fit_summary ELSE vendor_fit
     /\ engine_pc' = IF k = Len(EngineCsvFiles) THEN "runlog" ELSE "write_csv"
  /\ UNCHANGED <<engine_rc, engine_stdout, df_fit_summary>>
  /\ UNCHANGED <<studentVars, checkerVars, toolVars>>

\* lines 390-413: the run log, the "Wrote:" lines, return 0; a name that is not
\* bound raises NameError while meta is built, before the log file is opened
EngineRunlog ==
  /\ engine_pc = "runlog"
  /\ IF RunlogNames \subseteq EngineImports
       THEN /\ vendor_files' = vendor_files \cup {"logs/runlog_v6_2.txt"}
            /\ engine_stdout' = <<"Wrote:">>
            /\ engine_rc' = {0}
       ELSE /\ engine_rc' = {1}
            /\ UNCHANGED <<vendor_files, engine_stdout>>
  /\ engine_pc' = "exited"
  /\ UNCHANGED <<df_fit_summary, vendor_fit>>
  /\ UNCHANGED <<studentVars, checkerVars, toolVars>>

\* run_v6_2_engine, lines 67-74, once subprocess.run has returned
RunEngineFinish ==
  /\ pc = "engine_running"
  /\ engine_pc = "exited"
  /\ engine_stderr' = {IF engine_rc = {0} THEN "" ELSE "NameError"}
  /\ IF engine_rc # {0}
       THEN pc' = "raised" /\ exc' = "RuntimeError"
       ELSE pc' = "copy_outputs" /\ exc' = exc
  /\ UNCHANGED <<fs_case, tables_fit, ref_file, verdict_txt, verdict_details,
                 run_manifest, hashes_txt, paper_docs, details, within_call>>
  /\ UNCHANGED <<engineVars, checkerVars, toolVars>>

\* main() of the student runner on a checkout that has not been run
InitPipeline ==
  /\ ToolsIdle
  /\ pc = "run_v6_2_engine"
  /\ exc = "none"
  /\ fs_case \in BOOLEAN
  /\ tables_fit = {}
  /\ ref_file \in RefFiles
  /\ verdict_txt = Fresh.verdict_txt
  /\ verdict_details = Fresh.verdict_details
  /\ run_manifest = Fresh.run_manifest
  /\ hashes_txt = Fresh.hashes_txt
  /\ paper_docs = Fresh.paper_docs
  /\ engine_stderr = {}
  /\ details = {}
  /\ within_call = {}
  /\ EngineIdle
  /\ CheckerIdle

\* copy_outputs and the steps after it are never reached from InitPipeline;
\* they are the actions of SpecVerdict
NextPipeline ==
  \/ RunEngineStart
  \/ EngineCompute
  \/ EngineWriteCsv
  \/ EngineRunlog
  \/ RunEngineFinish

SpecPipeline == InitPipeline /\ [][NextPipeline]_vars

InitWithin ==
  /\ ToolsIdle
  /\ \E t \in CleanTables, r \in RefFiles : VerdictInputs({t}, r, Fresh)
  /\ EngineIdle
  /\ CheckerIdle

NextWithin ==
  \/ ComputeVerdict
  \/ CallWithin

SpecWithin == InitWithin /\ [][NextWithin]_vars

----------------------------------------------------------------------------
(* run_v6_2_experiment.py: generate_coherent_soft and what it calls.       *)
(* Sequence lengths are 4 and 8, for which the transforms are exact: a     *)
(* half-length inverse transform needs quarter turns only, a power         *)
(* spectrum of length 8 needs numbers u + v*sqrt(2)/2, kept as <<u, v>>.   *)
(* A normalised sequence is kept as [c, q]: its entries are                *)
(* c[i]*sqrt(n/q) when q > 0 (unit RMS) and c[i]/n when q = 0.             *)

RECURSIVE SumSeq(_)
SumSeq(s) == IF s = <<>> THEN 0 ELSE s[1] + SumSeq(Tail(s))

\* the sequence s, written out element by element
AsTuple(s) == s \o <<>>

Reverse(s) == AsTuple([i \in 1..Len(s) |-> s[Len(s) + 1 - i]])

\* cos and sin of t quarter turns
CosQ(t) == CASE t % 4 = 0 -> 1 [] t % 4 = 1 -> 0 [] t % 4 = 2 -> -1 [] OTHER -> 0
SinQ(t) == CASE t % 4 = 0 -> 0 [] t % 4 = 1 -> 1 [] t % 4 = 2 -> 0 [] OTHER -> -1

\* cos of t eighth turns, as <<u, v>> for u + v*sqrt(2)/2
CosE(t) ==
  CASE t % 8 = 0 -> <<1, 0>> [] t % 8 = 1 -> <<0, 1>> [] t % 8 = 2 -> <<0, 0>>
    [] t % 8 = 3 -> <<0, -1>> [] t % 8 = 4 -> <<-1, 0>> [] t % 8 = 5 -> <<0, -1>>
    [] t % 8 = 6 -> <<0, 0>> [] OTHER -> <<0, 1>>

\* w <= u*sqrt(2) for naturals w and u, by the continued fraction of sqrt(2):
\* for u < w < 2u, w/u <= sqrt(2) exactly when 2(w - u)/(2u - w) <= sqrt(2)
RECURSIVE LeSqrt2(_, _)
LeSqrt2(w, u) ==
  IF w <= u THEN TRUE
  ELSE IF w >= 2 * u THEN FALSE
  ELSE LeSqrt2(2 * (w - u), 2 * u - w)

\* u + v*sqrt(2)/2 >= 0
NonNeg(uv) ==
  LET u == uv[1]
      v == uv[2]
  IN \/ u >= 0 /\ v >= 0
     \/ u >= 0 /\ v < 0 /\ LeSqrt2(-v, u)
     \/ u < 0 /\ v > 0 /\ ~LeSqrt2(v, -u)

IsZero(uv) == uv[1] = 0 /\ uv[2] = 0

PhaseRes == 1

\* amp*(cos(phase), sin(phase)) of one uniform phase (lines 89-90), rounded
\* to a grid of PhaseRes steps to the unit
PhaseGrid ==
  {ph \in (-PhaseRes..PhaseRes) \X (-PhaseRes..PhaseRes) :
     Abs(ph[1]) = PhaseRes \/ Abs(ph[2]) = PhaseRes}

\* Params (lines 34-44); p_spectrum enters through BinWeight. With two active
\* bins the gates take one setting, with one bin or none all eight.
ParamsSet ==
  {p \in [n : {4, 8}, band : {8, 25, 50}, lambda_threshold : {75},
          mean_abs_max : {10, -1}, sign_changes_min : {0, 2},
          sign_changes_max : {1, 200}] :
     (p.n = 8 /\ p.band = 50) =>
        /\ p.mean_abs_max = 10
        /\ p.sign_changes_min = 2
        /\ p.sign_changes_max = 200}

\* idx (lines 78-79): the bins k of the half-length spectrum with 0 < k/m <= band
ActiveBins(p) ==
  LET m == p.n \div 2 IN
  {k \in 0..(m \div 2) : k > 0 /\ 100 * k <= p.band * m}

\* the weight of bin k in the inverse transform: 2*amp for an inner bin, amp
\* for the Nyquist bin, amp = 1/k^(p_spectrum/2); 2 : 2^(-1.35) is about 5 : 1
BinWeight(k, m) == IF 2 * k = m THEN 1 ELSE 5

\* np.fft.irfft(spec, n=m), the Nyquist bin real (lines 93-96)
irfft(idx, ph, m) ==
  AsTuple([j \in 1..m |->
     SumSeq(AsTuple([k \in 1..(m \div 2) |->
       IF k \notin idx THEN 0
       ELSE IF 2 * k = m
         THEN BinWeight(k, m) * ph[k][1] * CosQ(2 * (j - 1))
         ELSE BinWeight(k, m) *
                (ph[k][1] * CosQ(k * (j - 1) * (4 \div m))
                   - ph[k][2] * SinQ(k * (j - 1) * (4 \div m)))]))])

mirrorRepeat(h) == h \o h

\* np.concatenate([h, h[::-1]]) (line 97)
mirror(h) == h \o Reverse(h)

\* unit_rms (lines 47-52)
unit_rms(x) ==
  LET n == Len(x)
      sum == SumSeq(x)
      c == AsTuple([i \in 1..n |-> n * x[i] - sum])
  IN [c |-> c, q |-> SumSeq(AsTuple([i \in 1..n |-> c[i] * c[i]]))]

\* the circular autocorrelation of c
autocorr(c) ==
  LET n == Len(c) IN
  AsTuple([d \in 1..n |->
    SumSeq(AsTuple([j \in 1..n |-> c[j] * c[((j + d - 2) % n) + 1]]))])

\* |X_k|^2 of the sequence with autocorrelation r, up to the square of its scale
PowerAt(r, k) ==
  LET n == Len(r)
      e == AsTuple([d \in 1..n |-> CosE((k * (d - 1) * (8 \div n)) % 8)])
  IN << SumSeq(AsTuple([d \in 1..n |-> r[d] * e[d][1]])),
        SumSeq(AsTuple([d \in 1..n |-> r[d] * e[d][2]])) >>

\* low_freq_ratio (lines 55-62): [num, den]; the ratio is 0.0 when den is not > 0
low_freq_ratio(y, band) ==
  LET n == Len(y.c)
      r == autocorr(y.c)
      pw == AsTuple([k \in 1..(n \div 2 + 1) |-> PowerAt(r, k - 1)])
      low(k) == 100 * (k - 1) <= band * n
  IN [num |-> << SumSeq(AsTuple([k \in DOMAIN pw |-> IF low(k) THEN pw[k][1] ELSE 0])),
                 SumSeq(AsTuple([k \in DOMAIN pw |-> IF low(k) THEN pw[k][2] ELSE 0])) >>,
      den |-> << SumSeq(AsTuple([k \in DOMAIN pw |-> pw[k][1]])),
                 SumSeq(AsTuple([k \in DOMAIN pw |-> pw[k][2]])) >>]

\* lam >= t
LamGE(lam, t) ==
  IF NonNeg(lam.den) /\ ~IsZero(lam.den)
    THEN NonNeg(<< 100 * lam.num[1] - t * lam.den[1],
                   100 * lam.num[2] - t * lam.den[2] >>)
    ELSE 0 >= t

\* float(np.mean(x)), up to the scale of y: the sum of c
mean_num(y) == SumSeq(y.c)

\* abs(mu) <= t
MeanAbsLE(y, t) ==
  t >= 0 /\ 10000 * mean_num(y) * mean_num(y) <= t * t * Len(y.c) * y.q

Sgn(v) == IF v < 0 THEN -1 ELSE 1

\* sign_changes_half (lines 65-69)
sign_changes_half(y) ==
  LET half == SubSeq(y.c, 1, Len(y.c) \div 2) IN
  Cardinality({i \in 1..(Len(half) - 1) : Sgn(half[i + 1]) # Sgn(half[i])})

acceptIgnoringSigns(lam, y, sc, p) ==
  /\ LamGE(lam, p.lambda_threshold)
  /\ MeanAbsLE(y, p.mean_abs_max)

\* the test of line 104
accept(lam, y, sc, p) ==
  /\ LamGE(lam, p.lambda_threshold)
  /\ MeanAbsLE(y, p.mean_abs_max)
  /\ p.sign_changes_min <= sc
  /\ sc <= p.sign_changes_max

\* lines 74-81
SynthStart ==
  /\ syn_pc = "start"
  /\ IF ActiveBins(syn_p) = {}
       THEN syn_pc' = "raised" /\ syn_exc' = "RuntimeError"
       ELSE syn_pc' = "loop" /\ syn_exc' = syn_exc
  /\ UNCHANGED <<syn_p, syn_attempts, rng_draws, syn_cand, syn_ret>>
  /\ UNCHANGED <<studentVars, engineVars, checkerVars, integVars, moreVars>>

MaxAttempts == 2

loopWithAttemptCap(attempts) == attempts < MaxAttempts

\* while True (line 83)
LoopGoesOn(attempts) == TRUE

\* what one pass of the while loop computes from the phases it drew
\* (lines 84-104)
SynthPass(p, ph) ==
  LET h == irfft(ActiveBins(p), ph, p.n \div 2)
      x == unit_rms(mirror(h))
      lam == low_freq_ratio(x, p.band)
      sc == sign_changes_half(x)
  IN [x |-> x,
      diag |-> [lambda |-> lam, mean |-> mean_num(x), sign_changes_half |-> sc],
      accepted |-> accept(lam, x, sc, p)]

\* SynthPass for every Params and every choice of phases, written out
PassTable ==
  [p \in ParamsSet |->
     [ph \in [ActiveBins(p) -> PhaseGrid] |-> SynthPass(p, ph)] @@ <<>>] @@ <<>>

\* one pass of the while loop (lines 83-105)
SynthAttempt ==
  /\ syn_pc = "loop"
  /\ LoopGoesOn(syn_attempts)
  /\ \E ph \in [ActiveBins(syn_p) -> PhaseGrid] :
       LET pass == PassTable[syn_p][ph] IN
       /\ rng_draws' = IF syn_attempts < MaxAttempts
                          THEN rng_draws + Cardinality(ActiveBins(syn_p))
                          ELSE rng_draws
       /\ syn_attempts' = IF syn_attempts < MaxAttempts
                             THEN syn_attempts + 1 ELSE syn_attempts
       /\ syn_cand' = {pass.x}
       /\ IF pass.accepted
            THEN /\ syn_ret' = {[x |-> pass.x, diag |-> pass.diag]}
                 /\ syn_pc' = "returned"
            ELSE /\ syn_ret' = syn_ret
                 /\ syn_pc' = "loop"
  /\ UNCHANGED <<syn_p, syn_exc>>
  /\ UNCHANGED <<studentVars, engineVars, checkerVars, integVars, moreVars>>

----------------------------------------------------------------------------
(* The integrity checkers: verify_manifest.py and V6-1/code/verify_pack.py *)
(* A digest is a sequence of hexadecimal characters.                       *)

LowerChar(ch) ==
  CASE ch = "A" -> "a" [] ch = "B" -> "b" [] ch = "C" -> "c"
    [] ch = "D" -> "d" [] ch = "E" -> "e" [] ch = "F" -> "f" [] OTHER -> ch

\* str.lower
Lower(str) == [i \in 1..Len(str) |-> LowerChar(str[i])]

FileNames == {"f1", "f2"}

\* hashlib's hexdigest of the bytes on disk: lower-case hexadecimal
hfile(fn, algo) ==
  IF algo = "md5" THEN IF fn = "f1" THEN <<"a", "1">> ELSE <<"d", "2">>
  ELSE IF fn = "f1" THEN <<"e", "3">> ELSE <<"f", "4">>

\* what a manifest may list for a file: its digest, the same in upper case,
\* or some other digest
ListedDigests(fn, algo) ==
  {hfile(fn, algo), [i \in 1..2 |-> UpperChar(hfile(fn, algo)[i])], <<"0", "0">>}

ManifestRows ==
  UNION {[relative_path : {fn}, md5 : ListedDigests(fn, "md5"),
          sha256 : {hfile(fn, "sha256"), <<"0", "0">>}] : fn \in FileNames}

MaxEntries == 2

Manifests == UNION {[1..k -> ManifestRows] : k \in 0..MaxEntries}

\* one pass of the for loop of verify_manifest.main (lines 20-35)
VerifyManifestRow ==
  /\ ig_prog = "verify_manifest"
  /\ ig_pc = "run"
  /\ ig_i <= Len(ig_manifest)
  /\ LET entry == ig_manifest[ig_i]
         rel == entry.relative_path
         md5_got == hfile(rel, "md5")
         sha_got == hfile(rel, "sha256")
     IN
     IF rel \notin ig_disk
       THEN /\ ig_out' = Append(ig_out, <<"MISSING", rel>>)
            /\ ig_bad' = ig_bad + 1
       ELSE IF md5_got # entry.md5 \/ sha_got # entry.sha256
         THEN /\ ig_out' = ig_out \o << <<"HASH_MISMATCH", rel>>,
                                        <<"  expected md5  ", entry.md5>>,
                                        <<"  actual   md5  ", md5_got>>,
                                        <<"  expected sha256", entry.sha256>>,
                                        <<"  actual   sha256", sha_got>> >>
              /\ ig_bad' = ig_bad + 1
         ELSE UNCHANGED <<ig_out, ig_bad>>
  /\ ig_i' = ig_i + 1
  /\ UNCHANGED <<ig_prog, ig_manifest, ig_disk, ig_pc, ig_ret>>
  /\ UNCHANGED <<studentVars, engineVars, checkerVars, synthVars, moreVars>>

\* lines 36-40, and sys.exit(main())
VerifyManifestEnd ==
  /\ ig_prog = "verify_manifest"
  /\ ig_pc = "run"
  /\ ig_i > Len(ig_manifest)
  /\ IF ig_bad # 0
       THEN ig_out' = Append(ig_out, <<"FAILED", ig_bad>>) /\ ig_ret' = {1}
       ELSE ig_out' = Append(ig_out, <<"OK">>) /\ ig_ret' = {0}
  /\ ig_pc' = "done"
  /\ UNCHANGED <<ig_prog, ig_manifest, ig_disk, ig_i, ig_bad>>
  /\ UNCHANGED <<studentVars, engineVars, checkerVars, synthVars, moreVars>>

\* the lines of verify_pack.py at which a quoted string is opened and the line
\* ends before it is closed
VerifyPackUnterminatedLiterals == {103, 108}

\* the keys of the dict expected, in insertion order (lines 67-71)
RECURSIVE ExpectedKeys(_)
ExpectedKeys(rows) ==
  IF rows = <<>> THEN <<>>
  ELSE LET rest == ExpectedKeys(SubSeq(rows, 1, Len(rows) - 1))
           fn == rows[Len(rows)].relative_path
       IN IF \E i \in DOMAIN rest : rest[i] = fn THEN rest ELSE Append(rest, fn)

\* expected[fn]: the last row of the file, its digests in lower case
ExpectedOf(rows, fn) ==
  LET last == CHOOSE i \in DOMAIN rows :
                /\ rows[i].relative_path = fn
                /\ \A j \in DOMAIN rows : rows[j].relative_path = fn => j <= i
  IN <<Lower(rows[last].md5), Lower(rows[last].sha256)>>

\* the hash stage of verify_pack.main (lines 73-86), from key i on
RECURSIVE HashStage(_, _, _, _, _, _)
HashStage(rows, disk, keys, i, out, ok) ==
  IF i > Len(keys)
    THEN [out |-> out, ret |-> IF ok THEN {} ELSE {3}, examined |-> i - 1]
  ELSE LET fn == keys[i]
           exp == ExpectedOf(rows, fn)
           md5_ok == hfile(fn, "md5") = exp[1]
           sha_ok == hfile(fn, "sha256") = exp[2]
       IN IF fn \notin disk
            THEN [out |-> Append(out, <<"Missing: ", fn>>), ret |-> {2},
                  examined |-> i]
            ELSE HashStage(rows, disk, keys, i + 1,
                           Append(out, <<fn, IF md5_ok THEN "OK" ELSE "FAIL",
                                         IF sha_ok THEN "OK" ELSE "FAIL">>),
                           ok /\ md5_ok /\ sha_ok)

\* python3 verify_pack.py: the file is compiled before any of it runs
VerifyPackRun ==
  /\ ig_prog = "verify_pack"
  /\ ig_pc = "run"
  /\ IF VerifyPackUnterminatedLiterals # {}
       THEN /\ ig_pc' = "SyntaxError"
            /\ ig_ret' = {1}
            /\ UNCHANGED <<ig_out, ig_i>>
       ELSE LET r == HashStage(ig_manifest, ig_disk, ExpectedKeys(ig_manifest),
                               1, <<>>, TRUE)
            IN /\ ig_pc' = IF r.ret = {} THEN "past_hash_stage" ELSE "done"
               /\ ig_ret' = r.ret
               /\ ig_out' = r.out
               /\ ig_i' = r.examined + 1
  /\ UNCHANGED <<ig_prog, ig_manifest, ig_disk, ig_bad>>
  /\ UNCHANGED <<studentVars, engineVars, checkerVars, synthVars, moreVars>>

\* the student runner not running
StudentIdle ==
  /\ pc = "idle"
  /\ exc = "none"
  /\ fs_case = TRUE
  /\ tables_fit = {}
  /\ ref_file = {}
  /\ verdict_txt = Fresh.verdict_txt
  /\ verdict_details = Fresh.verdict_details
  /\ run_manifest = Fresh.run_manifest
  /\ hashes_txt = Fresh.hashes_txt
  /\ paper_docs = Fresh.paper_docs
  /\ engine_stderr = {}
  /\ details = {}
  /\ within_call = {}

InitSynth ==
  /\ StudentIdle /\ EngineIdle /\ CheckerIdle /\ IntegIdle /\ MoreIdle
  /\ syn_pc = "start"
  /\ syn_p \in ParamsSet
  /\ syn_attempts = 0
  /\ rng_draws = 0
  /\ syn_cand = {}
  /\ syn_ret = {}
  /\ syn_exc = ""

NextSynth ==
  \/ SynthStart
  \/ SynthAttempt

SpecSynth == InitSynth /\ [][NextSynth]_vars

\* a pass of the loop whose candidate passes the gates
AcceptingPass == syn_pc' = "returned" /\ SynthAttempt

\* the call is not suspended for ever before its loop, and a candidate that
\* passes the gates is drawn at some pass if one can be drawn at all
SpecSynthFair ==
  /\ SpecSynth
  /\ WF_vars(SynthStart)
  /\ WF_vars(AcceptingPass)

InitIntegrity ==
  /\ StudentIdle /\ EngineIdle /\ CheckerIdle /\ SynthIdle /\ MoreIdle
  /\ ig_prog \in {"verify_manifest", "verify_pack"}
  /\ ig_manifest \in Manifests
  /\ ig_disk \in SUBSET FileNames
  /\ ig_pc = "run"
  /\ ig_i = 1
  /\ ig_bad = 0
  /\ ig_out = <<>>
  /\ ig_ret = {}

NextIntegrity ==
  \/ VerifyManifestRow
  \/ VerifyManifestEnd
  \/ VerifyPackRun

SpecIntegrity == InitIntegrity /\ [][NextIntegrity]_vars

----------------------------------------------------------------------------
(* run_v6_2_experiment.py: the per-condition aggregation of df_fit          *)
(* (lines 357-374), for one numeric field. A mean is the fraction          *)
(* sum/count; a standard deviation is given by its square, the fraction    *)
(* (count*sum of squares - sum^2)/(count*(count - 1)).                     *)

MaxFitReps == 3

\* the conditions of the field's column, in sorted order
AggConditions == <<"coherent_bin", "random_bin">>

\* what a fit may have put into the field (lines 122-123, 132)
FieldValues == {0, 50, NaN}

\* df_fit for R replicates: fit_rows is filled condition by condition
\* (lines 311-342)
FitTable(R, val) ==
  [i \in 1..(Len(AggConditions) * R) |->
     [condition |-> AggConditions[((i - 1) \div R) + 1],
      replicate |-> (i - 1) % R,
      v |-> val[((i - 1) \div R) + 1][((i - 1) % R) + 1]]]

FitTables ==
  UNION {{FitTable(R, val) :
            val \in [1..Len(AggConditions) -> [1..R -> FieldValues]]} :
         R \in 1..MaxFitReps}

\* the values of one group, in row order
RECURSIVE GroupColumn(_, _)
GroupColumn(rows, cond) ==
  IF rows = <<>> THEN <<>>
  ELSE IF rows[1].condition = cond
    THEN <<rows[1].v>> \o GroupColumn(Tail(rows), cond)
    ELSE GroupColumn(Tail(rows), cond)

\* the values a pandas reduction looks at: missing values are skipped
RECURSIVE NotMissing(_)
NotMissing(col) ==
  IF col = <<>> THEN <<>>
  ELSE IF IsNaN(col[1]) THEN NotMissing(Tail(col))
  ELSE <<col[1]>> \o NotMissing(Tail(col))

\* a statistic: the fraction num/den, or NaN
Stat(num, den) == [nan |-> FALSE, num |-> num, den |-> den]

NaNStat == [nan |-> TRUE, num |-> 0, den |-> 1]

\* GroupBy "mean"
groupby_mean(col) ==
  LET ok == NotMissing(col) IN
  IF ok = <<>> THEN NaNStat ELSE Stat(SumSeq(ok), Len(ok))

\* GroupBy "std", ddof = 1
groupby_std(col) ==
  LET ok == NotMissing(col)
      cnt == Len(ok)
      sq == AsTuple([i \in 1..cnt |-> ok[i] * ok[i]])
  IN IF cnt < 2 THEN NaNStat
     ELSE Stat(cnt * SumSeq(sq) - SumSeq(ok) * SumSeq(ok), cnt * (cnt - 1))

\* df_fit.groupby("condition", as_index=False).agg(...) (lines 357-374)
Aggregate ==
  /\ agg_pc = "agg"
  /\ agg_out' =
       {[exc |-> "none",
         rows |-> [g \in DOMAIN AggConditions |->
                     LET col == GroupColumn(agg_rows, AggConditions[g]) IN
                     [condition |-> AggConditions[g],
                      mean |-> groupby_mean(col),
                      std |-> groupby_std(col)]]]}
  /\ agg_pc' = "done"
  /\ UNCHANGED agg_rows
  /\ UNCHANGED <<studentVars, engineVars, checkerVars, synthVars, integVars,
                 binVars, runVars, curVars>>

InitAggregate ==
  /\ StudentIdle /\ EngineIdle /\ CheckerIdle /\ SynthIdle /\ IntegIdle
  /\ BinIdle /\ RunIdle /\ CurIdle
  /\ agg_pc = "agg"
  /\ agg_rows \in FitTables
  /\ agg_out = {}

NextAggregate == Aggregate

SpecAggregate == InitAggregate /\ [][NextAggregate]_vars

----------------------------------------------------------------------------
(* run_v6_2_experiment.py: main() from Params() to df_fit (lines 153-344).  *)
(* The sequences themselves are left out here; what is kept is which calls *)
(* are made on rng and with what size, which rows are appended to rows,    *)
(* and which of them each fit takes.                                       *)

\* Params() (line 153): n and band as declared, replicates bounded
Params_n == 512

MaxReps == 2

DefaultParams ==
  [n |-> Params_n, band |-> 8, lambda_threshold |-> 75, mean_abs_max |-> 10,
   sign_changes_min |-> 2, sign_changes_max |-> 200, replicates |-> MaxReps]

\* lines 165-167
k_small == <<0, 1, 2, 3, 4, 5, 6, 8, 10, 12, 16, 20, 24, 28, 32>>

k_outInSmallAngle == <<DefaultParams.n \div 16>>

k_out == <<DefaultParams.n \div 8>>

k_grid == k_small \o k_out

\* lines 170-171
noise_sigmas == <<5, 10, 30>>

bitflip_ps == <<1, 2, 5, 10>>

\* f"coherent_soft_noise_sigma{sigma:.2f}" (line 207)
NoiseName(sigma) ==
  CASE sigma = 5 -> "coherent_soft_noise_sigma0.05"
    [] sigma = 10 -> "coherent_soft_noise_sigma0.10"
    [] sigma = 30 -> "coherent_soft_noise_sigma0.30"

\* f"coherent_bin_bitflip_p{prob:.2f}" (line 245)
BitflipName(prob) ==
  CASE prob = 1 -> "coherent_bin_bitflip_p0.01"
    [] prob = 2 -> "coherent_bin_bitflip_p0.02"
    [] prob = 5 -> "coherent_bin_bitflip_p0.05"
    [] prob = 10 -> "coherent_bin_bitflip_p0.10"

PhaseOrderControlsFirst ==
  <<"synth", "random_draw", "random_bin", "pal_draw", "palindrome", "soft",
    "noise", "bin", "bitflip">>

\* the body of the replicate loop (lines 178-300), in program order
PhaseOrder ==
  <<"synth", "soft", "noise", "bin", "bitflip", "random_draw", "random_bin",
    "pal_draw", "palindrome">>

PhaseIndex(ph) == CHOOSE i \in DOMAIN PhaseOrder : PhaseOrder[i] = ph

\* where main() is after the last statement of a phase
AfterPhase(ph) ==
  IF PhaseIndex(ph) < Len(PhaseOrder)
    THEN [pc |-> PhaseOrder[PhaseIndex(ph) + 1], rep |-> run_rep,
          level |-> 1, ki |-> 1]
  ELSE IF run_rep + 1 < DefaultParams.replicates
    THEN [pc |-> PhaseOrder[1], rep |-> run_rep + 1, level |-> 1, ki |-> 1]
  ELSE [pc |-> "fits", rep |-> 0, level |-> 1, ki |-> 1]

\* where main() is after the curve point (run_level, run_ki) of a phase that
\* loops over so many levels and, inside, over k_grid
AfterPoint(ph, levels) ==
  IF run_ki < Len(k_grid)
    THEN [pc |-> ph, rep |-> run_rep, level |-> run_level, ki |-> run_ki + 1]
  ELSE IF run_level < levels
    THEN [pc |-> ph, rep |-> run_rep, level |-> run_level + 1, ki |-> 1]
  ELSE AfterPhase(ph)

Goto(t) ==
  /\ run_pc' = t.pc
  /\ run_rep' = t.rep
  /\ run_level' = t.level
  /\ run_ki' = t.ki

\* one call on rng
Draw(call, ph, level, ki, size) ==
  [call |-> call, phase |-> ph, rep |-> run_rep, level |-> level, ki |-> ki,
   size |-> size]

\* rows.append({...}) of the curve point at hand
RawRow(cond) == [condition |-> cond, replicate |-> run_rep, k |-> k_grid[run_ki]]

OthersIdleForRun ==
  UNCHANGED <<studentVars, engineVars, checkerVars, synthVars, integVars,
              aggVars, binVars, curVars>>

\* lines 153-154: p = Params(); rng = np.random.default_rng(p.seed)
RunStart ==
  /\ run_pc = "start"
  /\ rng_seedings' = rng_seedings + 1
  /\ IF DefaultParams.replicates > 0
       THEN Goto([pc |-> PhaseOrder[1], rep |-> 0, level |-> 1, ki |-> 1])
       ELSE Goto([pc |-> "fits", rep |-> 0, level |-> 1, ki |-> 1])
  /\ UNCHANGED <<run_draws, run_rows, fit_rows>>
  /\ OthersIdleForRun

\* lines 178-186: generate_coherent_soft returns after some number of passes,
\* each of which drew one phase per active bin; to_bin; coh_rows.append
RunSynth ==
  /\ run_pc = "synth"
  /\ \E passes \in 1..MaxAttempts :
       run_draws' = run_draws \o
         [a \in 1..passes |->
            Draw("uniform", "synth", 0, a,
                 Cardinality(ActiveBins(DefaultParams)))]
  /\ Goto(AfterPhase("synth"))
  /\ UNCHANGED <<rng_seedings, run_rows, fit_rows>>
  /\ OthersIdleForRun

\* lines 189-203, one k
RunSoftPoint ==
  /\ run_pc = "soft"
  /\ run_rows' = Append(run_rows, RawRow("coherent_soft"))
  /\ Goto(AfterPoint("soft", 1))
  /\ UNCHANGED <<rng_seedings, run_draws, fit_rows>>
  /\ OthersIdleForRun

\* lines 206-224, one sigma and one k
RunNoisePoint ==
  /\ run_pc = "noise"
  /\ run_draws' = Append(run_draws,
                         Draw("normal", "noise", run_level, run_ki,
                              DefaultParams.n))
  /\ run_rows' = Append(run_rows, RawRow(NoiseName(noise_sigmas[run_level])))
  /\ Goto(AfterPoint("noise", Len(noise_sigmas)))
  /\ UNCHANGED <<rng_seedings, fit_rows>>
  /\ OthersIdleForRun

\* lines 227-241, one k
RunBinPoint ==
  /\ run_pc = "bin"
  /\ run_rows' = Append(run_rows, RawRow("coherent_bin"))
  /\ Goto(AfterPoint("bin", 1))
  /\ UNCHANGED <<rng_seedings, run_draws, fit_rows>>
  /\ OthersIdleForRun

bitflipMaskOncePerLevel(ki) == IF ki = 1 THEN <<DefaultParams.n>> ELSE <<>>

\* the sizes of the rng.random calls made for the curve point ki (line 249)
bitflip_draws(ki) == <<DefaultParams.n>>

\* lines 244-262, one probability and one k
RunBitflipPoint ==
  /\ run_pc = "bitflip"
  /\ run_draws' = run_draws \o
       [j \in 1..Len(bitflip_draws(run_ki)) |->
          Draw("random", "bitflip", run_level, run_ki, bitflip_draws(run_ki)[j])]
  /\ run_rows' = Append(run_rows, RawRow(BitflipName(bitflip_ps[run_level])))
  /\ Goto(AfterPoint("bitflip", Len(bitflip_ps)))
  /\ UNCHANGED <<rng_seedings, fit_rows>>
  /\ OthersIdleForRun

\* line 266
RunRandomDraw ==
  /\ run_pc = "random_draw"
  /\ run_draws' = Append(run_draws,
                         Draw("choice", "random_draw", 0, 0, DefaultParams.n))
  /\ Goto(AfterPhase("random_draw"))
  /\ UNCHANGED <<rng_seedings, run_rows, fit_rows>>
  /\ OthersIdleForRun

\* lines 267-281, one k
RunRandomPoint ==
  /\ run_pc = "random_bin"
  /\ run_rows' = Append(run_rows, RawRow("random_bin"))
  /\ Goto(AfterPoint("random_bin", 1))
  /\ UNCHANGED <<rng_seedings, run_draws, fit_rows>>
  /\ OthersIdleForRun

\* lines 284-285
RunPalindromeDraw ==
  /\ run_pc = "pal_draw"
  /\ run_draws' = Append(run_draws,
                         Draw("choice", "pal_draw", 0, 0,
                              DefaultParams.n \div 2))
  /\ Goto(AfterPhase("pal_draw"))
  /\ UNCHANGED <<rng_seedings, run_rows, fit_rows>>
  /\ OthersIdleForRun

\* lines 286-300, one k
RunPalindromePoint ==
  /\ run_pc = "palindrome"
  /\ run_rows' = Append(run_rows, RawRow("palindrome_bin_no_coherence"))
  /\ Goto(AfterPoint("palindrome", 1))
  /\ UNCHANGED <<rng_seedings, run_draws, fit_rows>>
  /\ OthersIdleForRun

InSeq(v, sq) == \E i \in DOMAIN sq : sq[i] = v

\* the k of the rows with the given indices, by ascending k (sort_values("k"))
RECURSIVE SortedKs(_, _)
SortedKs(rows, idxs) ==
  IF idxs = {} THEN <<>>
  ELSE LET first == CHOOSE i \in idxs :
                      \A j \in idxs :
                        \/ rows[i].k < rows[j].k
                        \/ rows[i].k = rows[j].k /\ i <= j
       IN <<rows[first].k>> \o SortedKs(rows, idxs \ {first})

\* drep_small["k"] (lines 312-315)
drep_small(rows, cond, rep) ==
  SortedKs(rows, {i \in DOMAIN rows :
                    /\ rows[i].condition = cond
                    /\ rows[i].replicate = rep
                    /\ InSeq(rows[i].k, k_small)})

\* the entries of ks that are > 0 (line 325)
RECURSIVE Positive(_)
Positive(ks) ==
  IF ks = <<>> THEN <<>>
  ELSE IF ks[1] > 0 THEN <<ks[1]>> \o Positive(Tail(ks))
  ELSE Positive(Tail(ks))

\* lines 311-342, one condition and one replicate: the curve points the three
\* fits are given
RunFit ==
  /\ run_pc = "fits"
  /\ LET cond == SortedEngineConditions[run_level]
         ks == drep_small(run_rows, cond, run_rep)
     IN fit_rows' = Append(fit_rows,
                           [condition |-> cond, replicate |-> run_rep,
                            k_fit |-> ks, k_delta |-> Positive(ks)])
  /\ IF run_rep + 1 < DefaultParams.replicates
       THEN Goto([pc |-> "fits", rep |-> run_rep + 1, level |-> run_level,
                  ki |-> 1])
     ELSE IF run_level < Len(SortedEngineConditions)
       THEN Goto([pc |-> "fits", rep |-> 0, level |-> run_level + 1, ki |-> 1])
     ELSE Goto([pc |-> "fitted", rep |-> 0, level |-> 1, ki |-> 1])
  /\ UNCHANGED <<rng_seedings, run_draws, run_rows>>
  /\ OthersIdleForRun

InitRun ==
  /\ StudentIdle /\ EngineIdle /\ CheckerIdle /\ SynthIdle /\ IntegIdle
  /\ AggIdle /\ BinIdle /\ CurIdle
  /\ run_pc = "start"
  /\ run_rep = 0
  /\ run_level = 0
  /\ run_ki = 0
  /\ rng_seedings = 0
  /\ run_draws = <<>>
  /\ run_rows = <<>>
  /\ fit_rows = <<>>

NextRun ==
  \/ RunStart
  \/ RunSynth
  \/ RunSoftPoint
  \/ RunNoisePoint
  \/ RunBinPoint
  \/ RunBitflipPoint
  \/ RunRandomDraw
  \/ RunRandomPoint
  \/ RunPalindromeDraw
  \/ RunPalindromePoint
  \/ RunFit

SpecRun == InitRun /\ [][NextRun]_vars

----------------------------------------------------------------------------
(* run_v6_2_experiment.py: to_bin (lines 108-110) *)

\* a >= b on floats
FloatGE(a, b) == ~IsNaN(a) /\ ~IsNaN(b) /\ a >= b

to_binSign(x) ==
  AsTuple([i \in 1..Len(x) |->
             IF IsNaN(x[i]) THEN NaN
             ELSE IF x[i] > 0 THEN 100 ELSE IF x[i] = 0 THEN 0 ELSE -100])

\* np.where(x >= 0, 1.0, -1.0)
to_bin(x) ==
  AsTuple([i \in 1..Len(x) |-> IF FloatGE(x[i], 0) THEN 100 ELSE -100])

MaxLen == 3

\* entries of an argument: negative, zero, positive, of small and of large
\* magnitude, and NaN
BinEntries == {-150, -1, 0, 1, 100, NaN}

BinArguments == UNION {[1..len -> BinEntries] : len \in 0..MaxLen}

OthersIdleForBin ==
  UNCHANGED <<studentVars, engineVars, checkerVars, synthVars, integVars,
              aggVars, runVars, curVars>>

\* xb = to_bin(x)
BinCall ==
  /\ bin_pc = "call"
  /\ bin_out' = <<to_bin(bin_x)>>
  /\ bin_pc' = "again"
  /\ UNCHANGED bin_x
  /\ OthersIdleForBin

\* to_bin(xb)
BinAgain ==
  /\ bin_pc = "again"
  /\ bin_out' = Append(bin_out, to_bin(bin_out[1]))
  /\ bin_pc' = "done"
  /\ UNCHANGED bin_x
  /\ OthersIdleForBin

InitBin ==
  /\ StudentIdle /\ EngineIdle /\ CheckerIdle /\ SynthIdle /\ IntegIdle
  /\ AggIdle /\ RunIdle /\ CurIdle
  /\ bin_pc = "call"
  /\ bin_x \in BinArguments
  /\ bin_out = <<>>

NextBin ==
  \/ BinCall
  \/ BinAgain

SpecBin == InitBin /\ [][NextBin]_vars

----------------------------------------------------------------------------
(* run_v6_2_experiment.py: the curves of the four conditions that rotate a *)
(* sequence without perturbing it (lines 188-203, 226-241, 265-300), and   *)
(* E0 of their FitRecords (line 327), on sequences of length 4 and 8.      *)
(* A sequence is kept as [c, q] as above; for a sequence of +-1.0, c holds *)
(* its entries in hundredths and q = n * 100^2.  C and E are fractions     *)
(* <<numerator, denominator>>.                                             *)

IdentityConditions ==
  {"coherent_soft", "coherent_bin", "random_bin", "palindrome_bin_no_coherence"}

\* a sequence of entries +-1.0
AsUnitRms(v) == [c |-> v, q |-> SumSeq(AsTuple([i \in 1..Len(v) |-> v[i] * v[i]]))]

\* what generate_coherent_soft(rng, p) can return
CoherentSoft(p) ==
  {unit_rms(mirror(irfft(ActiveBins(p), ph, p.n \div 2))) :
     ph \in {f \in [ActiveBins(p) -> PhaseGrid] :
               LET x == unit_rms(mirror(irfft(ActiveBins(p), f, p.n \div 2)))
               IN accept(low_freq_ratio(x, p.band), x, sign_changes_half(x), p)}}

\* x, xb, xrand or xpal of a replicate (lines 178-179, 266, 284-285)
BaseSequences(cond) ==
  CASE cond = "coherent_soft" ->
         UNION {CoherentSoft(p) : p \in ParamsSet}
    [] cond = "coherent_bin" ->
         {AsUnitRms(to_bin(x.c)) : x \in UNION {CoherentSoft(p) : p \in ParamsSet}}
    [] cond = "random_bin" ->
         UNION {{AsUnitRms(v) : v \in [1..n -> {-100, 100}]} : n \in {4, 8}}
    [] cond = "palindrome_bin_no_coherence" ->
         UNION {{AsUnitRms(mirror(half)) : half \in [1..(n \div 2) -> {-100, 100}]} :
                  n \in {4, 8}}

rollOneFurther(x, k) == AsTuple([i \in 1..Len(x) |-> x[((i + k) % Len(x)) + 1]])

\* np.roll(x, -k)
roll(x, k) == AsTuple([i \in 1..Len(x) |-> x[((i - 1 + k) % Len(x)) + 1]])

\* corr_mean(x_ref, x_other) (lines 113-114) of a sequence and a rotation of it
corr_mean(y, ck) ==
  IF y.q = 0 THEN <<0, 1>>
  ELSE <<SumSeq(AsTuple([i \in 1..Len(ck) |-> y.c[i] * ck[i]])), y.q>>

\* k_small + [p.n // 8] (lines 165-167)
CurveGrid(n) == k_small \o <<n \div 8>>

OthersIdleForCurves ==
  UNCHANGED <<studentVars, engineVars, checkerVars, synthVars, integVars,
              aggVars, binVars, runVars>>

\* one pass of a "for k in k_grid" loop without perturbation
CurvePoint ==
  /\ cur_pc = "curve"
  /\ LET grid == CurveGrid(Len(cur_base.c))
         k == grid[Len(cur_points) + 1]
         C == corr_mean(cur_base, roll(cur_base.c, k))
     IN /\ cur_points' = Append(cur_points,
                                [k |-> k, C |-> C,
                                 E |-> <<2 * C[2] - 2 * C[1], C[2]>>])
        /\ cur_pc' = IF Len(cur_points) + 1 = Len(grid) THEN "fit" ELSE "curve"
  /\ UNCHANGED <<cur_cond, cur_base, cur_E0>>
  /\ OthersIdleForCurves

\* E0 = float(drep_small[drep_small["k"] == 0]["E"].iloc[0]) (line 327)
CurveFitE0 ==
  /\ cur_pc = "fit"
  /\ LET first == CHOOSE i \in DOMAIN cur_points :
                    /\ cur_points[i].k = 0
                    /\ \A j \in 1..(i - 1) : cur_points[j].k # 0
     IN cur_E0' = {cur_points[first].E}
  /\ cur_pc' = "done"
  /\ UNCHANGED <<cur_cond, cur_base, cur_points>>
  /\ OthersIdleForCurves

InitCurves ==
  /\ StudentIdle /\ EngineIdle /\ CheckerIdle /\ SynthIdle /\ IntegIdle
  /\ AggIdle /\ BinIdle /\ RunIdle
  /\ cur_pc = "curve"
  /\ cur_cond \in IdentityConditions
  /\ cur_base \in BaseSequences(cur_cond)
  /\ cur_points = <<>>
  /\ cur_E0 = {}

NextCurves ==
  \/ CurvePoint
  \/ CurveFitE0

SpecCurves == InitCurves /\ [][NextCurves]_vars

----------------------------------------------------------------------------
(* Claims about compute_verdict and the checker, under SpecVerdict *)

FailedChecks(d) == {i \in DOMAIN d.checks : ~d.checks[i].ok}

\* C1: compute_verdict evaluates exactly the eight named checks, in order (four
\* clean reference checks, two random_bin ceilings, two palindrome ceilings);
\* each ceiling check is true exactly when the measured value is a number not
\* above 0.20; the token is PASS iff all eight are true and FAIL otherwise, and
\* the file verdict_details.json holds the same token and the same checks.
C1_VerdictIsAndOfEightChecks ==
  details # {} =>
    LET d == The(details)
        m == d.measured
    IN
    /\ Len(d.checks) = 8
    /\ \A i \in 1..8 : d.checks[i].name = CheckNames[i]
    /\ d.checks[5].ok <=> (m.random_bin["R2_mean"] # NaN
                           /\ m.random_bin["R2_mean"] <= 20)
    /\ d.checks[6].ok <=> (m.random_bin["R2_origin_mean"] # NaN
                           /\ m.random_bin["R2_origin_mean"] <= 20)
    /\ d.checks[7].ok <=> (m.palindrome_bin_no_coherence["R2_mean"] # NaN
                           /\ m.palindrome_bin_no_coherence["R2_mean"] <= 20)
    /\ d.checks[8].ok <=> (m.palindrome_bin_no_coherence["R2_origin_mean"] # NaN
                           /\ m.palindrome_bin_no_coherence["R2_origin_mean"] <= 20)
    /\ (d.verdict = T_PASS) <=> (\A i \in 1..8 : d.checks[i].ok)
    /\ (d.verdict = T_FAIL) <=> (\E i \in 1..8 : ~d.checks[i].ok)
    /\ verdict_details.kind = "object"
    /\ verdict_details.obj.verdict = d.verdict
    /\ verdict_details.obj.checks = d.checks

\* C1 witness: a verdict FAIL that rests on a single false check, the last one
C1_Witness ==
  /\ details # {}
  /\ The(details).verdict = T_FAIL
  /\ FailedChecks(The(details)) = {8}

RowCount(fit, cond) ==
  IF fit = {} \/ "condition" \notin The(fit).cols THEN 0
  ELSE Cardinality({i \in DOMAIN The(fit).rows :
                      The(fit).rows[i]["condition"] = cond})

\* the inputs C6 is about
BadVerdictInput ==
  \/ tables_fit # {} /\ \E c \in RequiredConditions : RowCount(tables_fit, c) # 1
  \/ ref_file # {} /\ CLEAN \notin DOMAIN The(ref_file)

\* C6: when the fit summary has zero or several rows for a required condition,
\* or the reference lacks coherent_bin_clean, the call of compute_verdict ends
\* in an exception, returns nothing, and leaves verdict.txt and
\* verdict_details.json as they were.
C6_NoPartialVerdict ==
  [][ (pc = "compute_verdict" /\ pc' # pc /\ BadVerdictInput)
        => /\ pc' = "raised"
           /\ exc' # "none"
           /\ details' = {}
           /\ verdict_txt' = verdict_txt
           /\ verdict_details' = verdict_details ]_vars

\* C6 witness: compute_verdict raised ValueError on a summary with two
\* coherent_bin_clean rows, and the verdict of an earlier run is still on disk
C6_Witness ==
  /\ pc = "raised"
  /\ exc = "ValueError"
  /\ RowCount(tables_fit, CLEAN) = 2
  /\ RowCount(tables_fit, RAND) = 1
  /\ RowCount(tables_fit, PAL) = 1
  /\ verdict_txt = {Append(T_PASS, "\n")}
  /\ verdict_details = json_dumps([verdict |-> T_PASS])

ThreeOutcomes ==
  {"OFFICIAL_REPLICATION_PASS", "OFFICIAL_REPLICATION_FAIL", "NOT_COMPARABLE"}

StatusText(vd) ==
  LET o == vd.obj
      keys == <<"status", "verdict", "overall", "result">>
      truthy == SelectSeq(keys, LAMBDA k : k \in DOMAIN o /\ o[k] # <<>>)
  IN IF truthy = <<>> THEN <<>> ELSE o[truthy[1]]

\* what makes a run on one argument NOT_COMPARABLE
NotComparable(in) ==
  \/ ~in.dir_ok
  \/ \E i \in DOMAIN REQUIRED : REQUIRED[i] \notin in.files
  \/ in.verdict_details.kind = "unparsable"
  \/ in.verdict_details.kind = "object" /\ StatusText(in.verdict_details) = <<>>
  \/ \E i \in DOMAIN EXPECTED_CONDITIONS :
       ~InCsvText(in.fit, EXPECTED_CONDITIONS[i])

CheckedOwnVerdict ==
  /\ details # {}
  /\ chk_argc = 2
  /\ chk_in.dir_ok
  /\ chk_in.verdict_details = verdict_details
  /\ \A i \in DOMAIN REQUIRED : REQUIRED[i] \in chk_in.files
  /\ \A i \in DOMAIN EXPECTED_CONDITIONS :
       InCsvText(chk_in.fit, EXPECTED_CONDITIONS[i])

\* C9: compute_verdict stores the token under "verdict" (and under none of the
\* other keys the checker accepts) with value PASS or FAIL; a checker run that
\* finds the required files and condition names prints OFFICIAL_REPLICATION_PASS
\* exactly when that token is PASS and OFFICIAL_REPLICATION_FAIL exactly when
\* it is FAIL.
C9_CheckerFindsToken ==
  /\ details # {} =>
       /\ verdict_details.kind = "object"
       /\ "verdict" \in DOMAIN verdict_details.obj
       /\ {"status", "overall", "result"} \cap DOMAIN verdict_details.obj = {}
       /\ verdict_details.obj["verdict"] \in {T_PASS, T_FAIL}
       /\ verdict_details.obj["verdict"] = The(details).verdict
  /\ CheckedOwnVerdict =>
       /\ chk_exc = "none"
       /\ Len(chk_out) = 1
       /\ (chk_out[1].tag = "OFFICIAL_REPLICATION_PASS")
            <=> (The(details).verdict = T_PASS)
       /\ (chk_out[1].tag = "OFFICIAL_REPLICATION_FAIL")
            <=> (The(details).verdict = T_FAIL)

\* C9 witness: the run finished with FAIL and the checker then printed
\* OFFICIAL_REPLICATION_FAIL
C9_Witness ==
  /\ pc = "done"
  /\ CheckedOwnVerdict
  /\ The(details).verdict = T_FAIL
  /\ chk_in.files = PaperReadyFiles
  /\ chk_out = <<Line("OFFICIAL_REPLICATION_FAIL", "")>>

----------------------------------------------------------------------------
(* Claim about within(), under SpecWithin *)

AbsClose(val, ref, tol) ==
  val # NaN /\ ref # NaN /\ Abs(val - ref) <= tol

RelClose(val, ref, tol) ==
  /\ val # NaN
  /\ ref # NaN
  /\ IF ref = 0 THEN Abs(val) <= tol
     ELSE 100 * Abs(val - ref) <= tol * Abs(ref)

\* C7: the clean origin-fit slope check passes iff |val - ref| / |ref| <= 0.12
\* for a non-zero reference and iff |val| <= 0.12 for a zero reference; the
\* other three clean checks pass iff |val - ref| <= their absolute tolerance
\* (0.05, 0.03, 0.20); within() given neither tolerance raises ValueError, and
\* given a tolerance it raises nothing.
C7_RelativeSlopeTolerance ==
  /\ details # {} =>
       LET d == The(details)
           m == d.measured.coherent_bin_clean
           r == d.reference.coherent_bin_clean
       IN
       /\ d.checks[3].name = "clean.beta_origin_mean"
       /\ d.checks[3].ok <=> RelClose(m["beta_origin_mean"], r["beta_origin_mean"], 12)
       /\ d.checks[1].ok <=> AbsClose(m["R2_mean"], r["R2_mean"], 5)
       /\ d.checks[2].ok <=> AbsClose(m["R2_std"], r["R2_std"], 3)
       /\ d.checks[4].ok <=> AbsClose(m["R2_origin_mean"], r["R2_origin_mean"], 20)
  /\ within_call # {} =>
       LET c == The(within_call) IN
       /\ (c.res.exc = "ValueError") <=> (c.abs_tol = {} /\ c.rel_tol = {})
       /\ c.res.exc \in {"none", "ValueError"}
       /\ c.abs_tol # {} => (c.res.ok <=> AbsClose(c.val, c.ref, The(c.abs_tol)))
       /\ (c.abs_tol = {} /\ c.rel_tol # {}) =>
            (c.res.ok <=> RelClose(c.val, c.ref, The(c.rel_tol)))

\* C7 witness: against a zero reference slope a measured 0.12 passed, and a
\* call of within() with neither tolerance raised ValueError
C7_Witness ==
  /\ details # {}
  /\ The(details).reference.coherent_bin_clean["beta_origin_mean"] = 0
  /\ The(details).measured.coherent_bin_clean["beta_origin_mean"] = 12
  /\ The(details).checks[3].ok
  /\ within_call # {}
  /\ The(within_call).res.exc = "ValueError"

----------------------------------------------------------------------------
(* Claims about the pipeline, under SpecPipeline *)

\* C2: the fit summary the engine writes has, for each of coherent_bin_clean,
\* random_bin and palindrome_bin_no_coherence, exactly one row, and has the
\* columns R2_mean, R2_std, beta_origin_mean and R2_origin_mean, so that
\* compute_verdict on it (with a good reference) raises nothing.
C2_EngineSummaryFeedsVerdict ==
  vendor_fit # {} =>
    /\ \A c \in RequiredConditions : RowCount(vendor_fit, c) = 1
    /\ RequiredColumns \subseteq The(vendor_fit).cols
    /\ compute_verdict(vendor_fit, ref_file).exc = "none"

\* C3: an engine run that has ended wrote every listed artifact and exited
\* with code 0, and the student runner that waited for it did not raise.
C3_EngineRunCompletes ==
  /\ engine_rc # {} =>
       /\ engine_rc = {0}
       /\ EngineListedArtifacts \subseteq vendor_files
  /\ (engine_rc # {} /\ pc # "engine_running") => pc = "copy_outputs"

----------------------------------------------------------------------------
(* Claims about generate_coherent_soft, under SpecSynth *)

\* the sign changes among the first half of the entries, zeros counted as positive
HalfSignChanges(c) ==
  Cardinality({i \in 1..(Len(c) \div 2 - 1) : (c[i] < 0) # (c[i + 1] < 0)})

\* C4: every sequence generate_coherent_soft returns is the candidate of the
\* last pass of its loop and passes the three gates itself (low-frequency
\* ratio >= lambda_threshold, |mean| <= mean_abs_max, first-half sign changes
\* within [sign_changes_min, sign_changes_max]); the diagnostics returned with
\* it are the ones measured on that same sequence.
C4_ReturnedCandidatePassesGates ==
  syn_ret # {} =>
    LET r == The(syn_ret)
        lam == low_freq_ratio(r.x, syn_p.band)
    IN /\ syn_pc = "returned"
       /\ syn_cand = {r.x}
       /\ LamGE(lam, syn_p.lambda_threshold)
       /\ MeanAbsLE(r.x, syn_p.mean_abs_max)
       /\ syn_p.sign_changes_min <= HalfSignChanges(r.x.c)
       /\ HalfSignChanges(r.x.c) <= syn_p.sign_changes_max
       /\ r.diag.lambda = lam
       /\ r.diag.mean = mean_num(r.x)
       /\ r.diag.sign_changes_half = HalfSignChanges(r.x.c)

\* a sequence was returned on the second pass, after a rejected first candidate
C4_Witness ==
  /\ syn_ret # {}
  /\ syn_attempts = 2
  /\ syn_p.sign_changes_min = 2

\* C5: every returned sequence has length n and reads the same in both
\* directions, x[i] = x[n-1-i], after the normalisation.
C5_ReturnedSequenceIsPalindrome ==
  syn_ret # {} =>
    LET y == The(syn_ret).x IN
    /\ Len(y.c) = syn_p.n
    /\ \A i \in 1..syn_p.n : y.c[i] = y.c[syn_p.n + 1 - i]

\* a returned sequence of length 8 that is not constant and not symmetric
\* within its half
C5_Witness ==
  /\ syn_ret # {}
  /\ syn_p.n = 8
  /\ LET y == The(syn_ret).x IN
       /\ y.q > 0
       /\ \E i \in 1..4 : y.c[i] # y.c[5 - i]

----------------------------------------------------------------------------
(* Claim about the integrity checkers, under SpecIntegrity *)

IntegrityRunOver == ig_pc \in {"done", "SyntaxError", "past_hash_stage"}

\* every listed file exists and has the listed MD5 and SHA256
AllListedGood ==
  \A i \in DOMAIN ig_manifest :
    LET e == ig_manifest[i] IN
    /\ e.relative_path \in ig_disk
    /\ hfile(e.relative_path, "md5") = e.md5
    /\ hfile(e.relative_path, "sha256") = e.sha256

IntegrityPassed ==
  IF ig_prog = "verify_manifest"
    THEN ig_ret = {0} /\ ig_out # <<>> /\ ig_out[Len(ig_out)] = <<"OK">>
    ELSE ig_pc = "past_hash_stage"

\* C10: a finished integrity check has examined every manifest entry, passes
\* (verify_manifest returns 0 and prints OK; verify_pack gets past its hash
\* stage) exactly when every listed file exists with both digests as listed,
\* and otherwise exits with a non-zero code.
C10_IntegrityPassIffAllGood ==
  IntegrityRunOver =>
    /\ ig_i = Len(ig_manifest) + 1
    /\ IntegrityPassed <=> AllListedGood
    /\ ~IntegrityPassed => (ig_ret # {} /\ ig_ret # {0})

----------------------------------------------------------------------------
(* Claim about the aggregation, under SpecAggregate *)

\* C11: the aggregation raises nothing, and a condition one of whose
\* replicates has NaN in the field gets NaN as the field's mean and as its
\* standard deviation.
C11_NaNPropagatesToSummary ==
  agg_pc = "done" =>
    LET out == The(agg_out) IN
    /\ out.exc = "none"
    /\ \A g \in DOMAIN out.rows :
         (\E i \in DOMAIN agg_rows :
             /\ agg_rows[i].condition = out.rows[g].condition
             /\ IsNaN(agg_rows[i].v))
           => (out.rows[g].mean.nan /\ out.rows[g].std.nan)

----------------------------------------------------------------------------
(* Claims about the replicate loop and the fit loop, under SpecRun *)

\* the replicates whose loop body has been run to its end
FinishedReps ==
  IF run_pc \in {"fits", "fitted"} THEN 0..(DefaultParams.replicates - 1)
  ELSE IF run_pc = "start" THEN {}
  ELSE 0..(run_rep - 1)

\* the place of a call on rng in the order synthesis, noise, bit flips,
\* random_bin, palindrome half
DrawStage(d) ==
  CASE d.phase = "synth" -> 1 [] d.phase = "noise" -> 2
    [] d.phase = "bitflip" -> 3 [] d.phase = "random_draw" -> 4
    [] d.phase = "pal_draw" -> 5 [] OTHER -> 0

DrawRank(d) == ((d.rep * 8 + DrawStage(d)) * 8 + d.level) * 32 + d.ki

DrawsOf(rep, ph) ==
  Cardinality({i \in DOMAIN run_draws :
                 run_draws[i].rep = rep /\ run_draws[i].phase = ph})

\* C12: main() creates one generator, before the replicate loop, and no
\* other; the calls on it come replicate by replicate and, within a
\* replicate, in the order: one uniform phase per active bin for every
\* synthesis pass, one normal vector per sigma and k, one uniform vector per
\* flip probability and k, the random_bin sequence, the palindrome half.
\* The clean soft and binary curves make no call on it.
C12_OneGeneratorFixedDrawOrder ==
  /\ rng_seedings = IF run_pc = "start" THEN 0 ELSE 1
  /\ \A i \in 1..(Len(run_draws) - 1) :
       DrawRank(run_draws[i]) < DrawRank(run_draws[i + 1])
  /\ \A i \in DOMAIN run_draws :
       LET d == run_draws[i] IN
       CASE d.phase = "synth" ->
              /\ d.call = "uniform"
              /\ d.size = Cardinality({k \in 1..(DefaultParams.n \div 4) :
                                         100 * k <= 8 * (DefaultParams.n \div 2)})
         [] d.phase = "noise" ->
              /\ d.call = "normal" /\ d.size = DefaultParams.n
              /\ d.level \in DOMAIN noise_sigmas /\ d.ki \in DOMAIN k_grid
         [] d.phase = "bitflip" ->
              /\ d.call = "random" /\ d.size = DefaultParams.n
              /\ d.level \in DOMAIN bitflip_ps /\ d.ki \in DOMAIN k_grid
         [] d.phase = "random_draw" ->
              d.call = "choice" /\ d.size = DefaultParams.n
         [] d.phase = "pal_draw" ->
              d.call = "choice" /\ d.size = DefaultParams.n \div 2
         [] OTHER -> FALSE
  /\ \A rep \in FinishedReps :
       /\ DrawsOf(rep, "synth") >= 1
       /\ DrawsOf(rep, "noise") = Len(noise_sigmas) * Len(k_grid)
       /\ DrawsOf(rep, "bitflip") = Len(bitflip_ps) * Len(k_grid)
       /\ DrawsOf(rep, "random_draw") = 1
       /\ DrawsOf(rep, "pal_draw") = 1

\* two replicates are done, the second after a rejected first candidate
C12_Witness ==
  /\ run_pc = "fits"
  /\ \E i \in DOMAIN run_draws :
       /\ run_draws[i].rep = 1
       /\ run_draws[i].phase = "synth"
       /\ run_draws[i].ki = 2

\* the calls on rng made for the flip probability bitflip_ps[level] in a replicate
FlipCalls(rep, level) ==
  {i \in DOMAIN run_draws :
     /\ run_draws[i].phase = "bitflip"
     /\ run_draws[i].rep = rep
     /\ run_draws[i].level = level}

RECURSIVE DrawTotal(_)
DrawTotal(calls) ==
  IF calls = {} THEN 0
  ELSE LET i == CHOOSE j \in calls : TRUE
       IN run_draws[i].size + DrawTotal(calls \ {i})

\* C13, as stated: for every replicate and flip probability the flip masks
\* take exactly n draws, however many k the grid has.
C13_FlipDrawsOncePerLevel ==
  \A rep \in FinishedReps : \A level \in DOMAIN bitflip_ps :
    DrawTotal(FlipCalls(rep, level)) = DefaultParams.n

\* C13, amended: for every replicate, flip probability and k of the grid there
\* is one mask of n draws, so that a replicate and flip probability take
\* n * len(k_grid) draws.
C13_FlipDrawsPerCurvePoint ==
  \A rep \in FinishedReps : \A level \in DOMAIN bitflip_ps :
    /\ \A ki \in DOMAIN k_grid :
         DrawTotal({i \in FlipCalls(rep, level) : run_draws[i].ki = ki})
           = DefaultParams.n
    /\ DrawTotal(FlipCalls(rep, level)) = DefaultParams.n * Len(k_grid)

\* the bit-flip curves of a replicate are complete
C13_Witness ==
  /\ run_pc = "random_draw"
  /\ run_rep = 1
  /\ FlipCalls(1, Len(bitflip_ps)) # {}

----------------------------------------------------------------------------
(* Claim about to_bin, under SpecBin *)

\* C14: to_bin(x) has the length of x, the entry 1.0 where the entry of x is
\* >= 0 (zero included) and -1.0 elsewhere, and to_bin(to_bin(x)) = to_bin(x).
C14_ToBinSignsAndIdempotent ==
  /\ Len(bin_out) >= 1 =>
       /\ Len(bin_out[1]) = Len(bin_x)
       /\ \A i \in 1..Len(bin_x) :
            /\ bin_out[1][i] \in {-100, 100}
            /\ bin_out[1][i] = 100 <=> (bin_x[i] # NaN /\ bin_x[i] >= 0)
  /\ Len(bin_out) = 2 => bin_out[2] = bin_out[1]

\* both calls were made, on a sequence with a zero, a negative and a
\* positive entry
C14_Witness ==
  /\ bin_pc = "done"
  /\ \E i, j, k \in 1..Len(bin_x) : bin_x[i] = 0 /\ bin_x[j] = -1 /\ bin_x[k] = 100

----------------------------------------------------------------------------
(* Claim about the unperturbed curves, under SpecCurves *)

\* C15: on the curve of a condition that rotates without perturbing, every
\* point with k = 0 has C = 1 and E = 0, and E0 of the FitRecord is 0.
C15_SelfCorrelationAtZero ==
  /\ \A i \in DOMAIN cur_points :
       cur_points[i].k = 0 =>
         /\ cur_points[i].C[1] = cur_points[i].C[2]
         /\ cur_points[i].E[1] = 0
         /\ cur_points[i].E[2] > 0
  /\ cur_E0 # {} => The(cur_E0)[1] = 0

\* the FitRecord of a curve on which some rotation decorrelates the sequence
C15_Witness ==
  /\ cur_pc = "done"
  /\ cur_cond = "coherent_bin"
  /\ \E i \in DOMAIN cur_points : cur_points[i].C[1] < cur_points[i].C[2]

----------------------------------------------------------------------------
(* Claim about the grids and the fits, under SpecRun *)

Elements(sq) == {sq[i] : i \in DOMAIN sq}

\* C16: the small-angle k are among the k of the grid, which has no k twice
\* and has n/8 besides; each fit is given one curve point for each
\* small-angle k and no other (15 points, 14 for the baseline-corrected
\* fit), never the point at n/8; once the fit loop has ended each condition
\* has one FitRecord per replicate.
C16_FitsUseSmallAngleGridOnce ==
  /\ Elements(k_small) \subseteq Elements(k_grid)
  /\ Elements(k_small) # Elements(k_grid)
  /\ Cardinality(Elements(k_grid)) = Len(k_grid)
  /\ DefaultParams.n \div 8 \in Elements(k_grid) \ Elements(k_small)
  /\ \A i \in DOMAIN fit_rows :
       /\ fit_rows[i].k_fit = k_small
       /\ Len(fit_rows[i].k_fit) = 15
       /\ Len(fit_rows[i].k_delta) = 14
       /\ ~InSeq(DefaultParams.n \div 8, fit_rows[i].k_fit)
       /\ ~InSeq(DefaultParams.n \div 8, fit_rows[i].k_delta)
  /\ run_pc = "fitted" =>
       \A cond \in EngineConditions :
         \A rep \in 0..(DefaultParams.replicates - 1) :
           Cardinality({i \in DOMAIN fit_rows :
                          /\ fit_rows[i].condition = cond
                          /\ fit_rows[i].replicate = rep}) = 1
  /\ \A i \in DOMAIN fit_rows :
       /\ fit_rows[i].condition \in EngineConditions
       /\ fit_rows[i].replicate \in 0..(DefaultParams.replicates - 1)

\* the fit loop has ended
C16_Witness ==
  /\ run_pc = "fitted"
  /\ Len(fit_rows) = Cardinality(EngineConditions) * DefaultParams.replicates

----------------------------------------------------------------------------
(* Claim about the rejection loop, under SpecSynthFair *)

\* no bin k of the half-length spectrum has 0 < k/m <= band
EmptyBand ==
  \A k \in 1..(syn_p.n \div 4) : 100 * k > syn_p.band * (syn_p.n \div 2)

BandSize ==
  Cardinality({k \in 1..(syn_p.n \div 4) :
                 100 * k <= syn_p.band * (syn_p.n \div 2)})

\* a sequence passes the three gates of p
GatesOf(p, x) ==
  /\ LamGE(low_freq_ratio(x, p.band), p.lambda_threshold)
  /\ MeanAbsLE(x, p.mean_abs_max)
  /\ p.sign_changes_min <= HalfSignChanges(x.c)
  /\ HalfSignChanges(x.c) <= p.sign_changes_max

PassesGates(x) == GatesOf(syn_p, x)

\* the Params for which some choice of phases gives a candidate that passes
\* the gates
SatisfiableParams ==
  {p \in ParamsSet :
     \E ph \in [ActiveBins(p) -> PhaseGrid] :
       GatesOf(p, unit_rms(mirror(irfft(ActiveBins(p), ph, p.n \div 2))))}

GatesSatisfiable == syn_p \in SatisfiableParams

\* C17: the loop can always make another pass, and every counted pass takes
\* one draw per active bin; the call raises only RuntimeError, only for an
\* empty band, and then before any draw; it returns only a candidate that
\* passes the gates, does return if such a candidate can be drawn, and
\* otherwise neither returns nor raises.
C17_RejectionLoopWithoutCap ==
  /\ [](syn_pc = "loop" => ENABLED SynthAttempt)
  /\ [](rng_draws = syn_attempts * BandSize)
  /\ [](syn_pc = "raised" =>
          syn_exc = "RuntimeError" /\ EmptyBand /\ rng_draws = 0)
  /\ [](syn_pc = "returned" => PassesGates(The(syn_ret).x))
  /\ [](EmptyBand => syn_pc \in {"start", "raised"})
  /\ [](~EmptyBand /\ ~GatesSatisfiable => syn_pc \in {"start", "loop"})
  /\ (EmptyBand ~> syn_pc = "raised")
  /\ ((~EmptyBand /\ GatesSatisfiable) ~> syn_pc = "returned")

\* the loop has gone through MaxAttempts passes under gates that no candidate
\* passes (sign_changes_min > sign_changes_max)
C17_Witness ==
  /\ syn_pc = "loop"
  /\ syn_attempts = MaxAttempts
  /\ rng_draws > 0
  /\ syn_p.sign_changes_min > syn_p.sign_changes_max

====
